---- MODULE Spec2Model ----
(***************************************************************************)
(* State-machine model of the protocol client of mcp-doctor:               *)
(*   - MCPStdioClient (src/src/mcp_analyzer/mcp_stdio_client.py): a child  *)
(*     process, a reader thread feeding a queue, callers polling the queue *)
(*   - MCPSSEClient (src/src/mcp_analyzer/mcp_sse_client.py): a listener    *)
(*     task dispatching `message` events to pending futures, callers       *)
(*     POSTing requests                                                    *)
(*   - MCPClient (src/src/mcp_analyzer/mcp_client.py): the facade that     *)
(*     sets a transport up lazily and tears it down in close()             *)
(*                                                                         *)
(* Spec / FairSpec : one transport client instance (stdio or SSE) with its *)
(*                   concurrent callers and the server as environment.     *)
(* SpecClient      : one MCPClient instance and the resources it owns.     *)
(* SpecSession / FairSpecSession : one client session from construction   *)
(*                   to close, owned by a single task: MCPStdioClient, a   *)
(*                   launched NPXServerProcess, or MCPSSEClient with its   *)
(*                   reconnecting listener.                                *)
(* SpecLaunch      : the pure functions of the launcher                    *)
(*                   (src/src/mcp_analyzer/npx_launcher.py) applied to     *)
(*                   bounded inputs: the child environment, the server URL *)
(*                   found on an output line.                              *)
(* SpecManager     : one NPXServerManager and the servers it launches and  *)
(*                   stops.                                                *)
(* SpecFunctions   : the pure functions of the client applied to bounded   *)
(*                   inputs: the parsing of a tool list, the server        *)
(*                   information, the HTTP probe, the environment summary, *)
(*                   the start of a process from a command, the SSE line   *)
(*                   parser, fetch_tools_for_dataset                       *)
(*                   (src/src/mcp_analyzer/tool_utils.py).                 *)
(* SpecMalformed   : Spec with a server that also writes malformed lines   *)
(*                   and events.                                           *)
(* SpecDiscovery   : one address discovery of a launched process: its      *)
(*                   output lines, the timeout, the port fallback.         *)
(***************************************************************************)
EXTENDS Integers, Sequences, FiniteSets, TLC

\* ------------------------------------------------------------------ bounds
NumCallers == 2
MaxRequests == 3
MaxNotifications == 1
MaxStream == 2
MaxChildren == 3
MaxUrls == 2
MaxCloses == 2
MaxSent == 3
MaxDrops == 1
MaxStatements == 2
MaxTokens == 3
MaxEntries == 2
MaxMalformed == 1
MaxLines == 2
MaxSseLines == 5

Callers == 1..NumCallers
Ids == 1..MaxRequests
\* id 0 stands for a message without an id (Python None)
NoId == 0
\* the data of a `message` event that json.loads or MCPMessage(**...) rejects
Unparsable == -2
Message(i) == [id |-> i]
NoResponse == [id |-> -1]

\* an output line is a sequence of tokens: key words, URLs `http://host[:port]`
\* (port 0: none), a bare `host:port`, a number
Word(w) == [type |-> "word", text |-> w, host |-> "-", port |-> 0]
Url(h, p) == [type |-> "url", text |-> "http://", host |-> h, port |-> p]
HostPort(h, p) == [type |-> "hostport", text |-> "-", host |-> h, port |-> p]
Num(p) == [type |-> "num", text |-> "-", host |-> "-", port |-> p]
NoMatch == [type |-> "none", text |-> "-", host |-> "-", port |-> 0]

VARIABLES
    kind,             \* what this instance is: "stdio" | "sse" | "facade" | a session | a launcher function
    process,          \* stdio self.process: "none" | "running" | "exited"
    running,          \* self._running
    reader_thread,    \* stdio self._reader_thread: "none" | "alive" | "stopped"
    request_id,       \* number of request ids handed out by _next_id
    response_queue,   \* stdio self._response_queue
    received,         \* ids of the requests the server has received
    answered,         \* ids the stdio child has written a response for
    notified,         \* number of notifications the stdio child has written
    pc,               \* per caller: position in _send_request
    reqid,            \* per caller: id of its current request
    result,           \* per caller: the message _send_request returned
    skipped,          \* per caller: it re-enqueued a non-matching message
    sse_session,      \* SSE self._session: "none" | "open"
    sse_listener_task,\* SSE self._sse_listener_task: "none" | "active" | "done"
    connected,        \* the listener's GET stream is open
    messages_url,     \* SSE self._messages_url is set
    pending_requests, \* SSE self._pending_requests: the ids that have a future registered
    future,           \* per id: the future created by _wait_for_sse_response
    stream,           \* events the server has sent and the listener has not handled yet
    unsolicited,      \* ids logged as "Received unsolicited SSE message"
    delivered,        \* per id: how often a response was handed over for that request
    transport,        \* MCPClient self._transport
    is_npx_server,    \* MCPClient self._is_npx_server
    client_session,   \* MCPClient self._session: "none" | "open"
    npx_manager,      \* MCPClient self._npx_manager is set
    active_servers,   \* NPXServerManager._active_servers: url -> child (0: no entry)
    stdio_client,     \* MCPClient self._stdio_client: the instance it refers to (0: None)
    sse_client,       \* MCPClient self._sse_client is set
    children,         \* per child process ever launched: "unborn" | "running" | "exited"
    instances,        \* number of stdio clients and launcher processes created so far
    close_outcome,    \* how the last MCPClient.close() ended: "none" | "returned" | "raised"
    close_calls,      \* number of close() calls
    teardown,         \* the teardown steps the last close() performed
    logged,           \* the teardown failures the last close() logged
    phase,            \* position of the session's owner: setup, use and close of one client
    sent,             \* the methods of the messages sent to the server, in order
    init_response,    \* the `error` field of the initialize response: "none" until it arrives
    signals,          \* the signals sent to the child process, in order
    obeys_terminate,  \* the child exits when it gets the terminate signal
    handshake,        \* MCPClient: state of the handshake of the transport client it refers to
    op_outcome,       \* MCPClient: how the last operation ended for its caller
    tool_requests,    \* MCPClient: the tool requests sent, each with the handshake state then
    listener,         \* SSE listener loop: "none" | "get" | "streaming" | "backoff" | "stopped"
    drops,            \* number of GET attempts that failed, were rejected or ended (saturating)
    started_down,     \* the current request was POSTed while no stream was open
    command_prefix,   \* launcher: the `&&`-separated statements before the npx command
    env_vars,         \* launcher: the configured variables (NPXServerConfig.env_vars)
    environ,          \* launcher: the ambient environment (os.environ)
    child_env,        \* launcher: the environment handed to the child process
    line,             \* launcher: one line of the child's output, as tokens
    server_url,       \* launcher: what _extract_server_url returned for the line
    applied,          \* launcher: the function under study has run
    child_url,        \* manager: per child launched, the URL its start() returned (0: none)
    stops,            \* manager: the children whose stop() has been run
    args,             \* the arguments of the pure function under study
    ret,              \* its return value
    malformed,        \* number of malformed lines or events the server has written
    stdin,            \* stdio: the text written to the child's stdin and flushed, in pieces
    output,           \* discovery: the complete lines the child has written, in time order
    scanned,          \* discovery: the positions in output handed to _extract_server_url, in order
    probed,           \* discovery: the ports _try_fallback_detection has probed, each with its answer
    discovery,        \* discovery: "idle" | "waiting" | "probing" | "found" | "failed"
    config_port,      \* discovery: NPXServerConfig.port (0: None)
    server_target,    \* MCPClient self.server_target, by its form: "npx" | "url" | "https_url" | "other"
    transport_arg     \* MCPClient: the `transport` argument of the constructor

stdioVars == <<process, reader_thread, response_queue, answered, notified, skipped>>
callerVars == <<pc, reqid, result>>
sseVars == <<sse_session, sse_listener_task, connected, messages_url, pending_requests,
             future, stream, unsolicited, delivered>>
facadeVars == <<transport, is_npx_server, client_session, npx_manager, active_servers,
                stdio_client, sse_client, children, instances, close_outcome,
                close_calls, teardown, logged>>
sessionVars == <<phase, sent, init_response, signals, obeys_terminate>>
opVars == <<handshake, op_outcome, tool_requests>>
setupVars == <<listener, drops, started_down>>
launchVars == <<command_prefix, env_vars, environ, child_env, line, server_url, applied>>
managerVars == <<child_url, stops>>
pureVars == <<args, ret>>
inputVars == <<malformed, stdin>>
discoveryVars == <<output, scanned, probed, discovery, config_port>>
targetVars == <<server_target, transport_arg>>
moreVars == <<managerVars, pureVars, inputVars, discoveryVars, targetVars>>
extVars == <<sessionVars, opVars, setupVars, launchVars, moreVars>>
vars == <<kind, running, request_id, received, stdioVars, callerVars, sseVars, facadeVars,
          extVars>>

Waiting == {"poll", "posting", "waiting"}
Finished == {"idle", "done", "timedout", "failed"}

\* ------------------------------------------------------- MCPStdioClient

\* _wait_for_response: `if message.id == request_id`
MatchesAny(message, id) == TRUE
Matches(message, id) == message.id = id

\* _wait_for_response: `self._response_queue.put(message)` of a non-matching message
Requeue(q, message) == Append(q, message)

\* _next_id: self._request_id += 1; return self._request_id
NextIdReused == IF request_id = 0 THEN 1 ELSE request_id
NextId == request_id + 1

\* _send_request, lines 168-169: json.dumps(request_json) + "\n"; the JSON
\* text of a message holds no raw newline (json.dumps escapes it)
Json(i) == [chars |-> "json", id |-> i]
Newline == [chars |-> "newline", id |-> NoId]
RequestLineUnterminated(i) == <<Json(i)>>
RequestLine(i) == <<Json(i), Newline>>

\* __aenter__ / _start_process: spawn the child, start the reader thread
StdioStart ==
    /\ kind = "stdio"
    /\ process = "none"
    /\ process' = "running"
    /\ running' = TRUE
    /\ reader_thread' = "alive"
    /\ UNCHANGED <<kind, request_id, received, response_queue,
                   answered, notified, skipped, callerVars>>
    /\ UNCHANGED sseVars
    /\ UNCHANGED facadeVars
    /\ UNCHANGED extVars

\* list_tools / call_tool / list_resources: _next_id, then _send_request up to
\* the flush of the request line
StdioSendRequest(w) ==
    /\ kind = "stdio"
    /\ pc[w] \in Finished
    /\ request_id < MaxRequests
    /\ request_id' = NextId
    /\ reqid' = [reqid EXCEPT ![w] = NextId]
    /\ result' = [result EXCEPT ![w] = NoResponse]
    /\ skipped' = [skipped EXCEPT ![w] = FALSE]
    /\ \/ /\ process = "none"                    \* "Process not started"
          /\ pc' = [pc EXCEPT ![w] = "failed"]
          /\ UNCHANGED <<received, stdin>>
       \/ /\ process = "running"                 \* stdin.write(request_line); stdin.flush()
          /\ pc' = [pc EXCEPT ![w] = "poll"]
          /\ received' = received \cup {NextId}
          /\ stdin' = stdin \o RequestLine(NextId)
       \/ /\ process = "exited"                  \* the write hits a closed pipe, or is buffered
          /\ \E next \in {"failed", "poll"} : pc' = [pc EXCEPT ![w] = next]
          /\ UNCHANGED <<received, stdin>>
    /\ UNCHANGED <<kind, running, process, reader_thread,
                   response_queue, answered, notified>>
    /\ UNCHANGED sseVars
    /\ UNCHANGED facadeVars
    /\ UNCHANGED <<sessionVars, opVars, setupVars, launchVars, managerVars, pureVars, malformed,
                   discoveryVars, targetVars>>

\* the lines the child can write next: the response to a request it has received
\* and not answered yet, or a notification (a message without an id)
ChildLines ==
    {Message(i) : i \in received \ answered}
        \cup (IF notified < MaxNotifications THEN {Message(NoId)} ELSE {})

\* the child exits on its own
ChildExit ==
    /\ kind = "stdio"
    /\ process = "running"
    /\ process' = "exited"
    /\ UNCHANGED <<kind, running, request_id, received, reader_thread,
                   response_queue, answered, notified, skipped, callerVars>>
    /\ UNCHANGED sseVars
    /\ UNCHANGED facadeVars
    /\ UNCHANGED extVars

\* _read_messages: one iteration of the reader loop; the line read is one the
\* child has just written
ReadMessage ==
    /\ kind = "stdio"
    /\ reader_thread = "alive"
    /\ running
    /\ \/ /\ process = "running"
          /\ \E message \in ChildLines :
                /\ response_queue' = Append(response_queue, message)
                /\ answered' = IF message.id = NoId THEN answered
                                ELSE answered \cup {message.id}
                /\ notified' = IF message.id = NoId THEN notified + 1 ELSE notified
          /\ UNCHANGED reader_thread
       \/ /\ process = "exited"                  \* readline returns "" at end of file
          /\ reader_thread' = "stopped"
          /\ UNCHANGED <<response_queue, answered, notified>>
    /\ UNCHANGED <<kind, running, request_id, received, process, skipped, callerVars>>
    /\ UNCHANGED sseVars
    /\ UNCHANGED facadeVars
    /\ UNCHANGED extVars

\* _wait_for_response, line 191: `self.process and self.process.poll() is not None`
ProcessTerminatedNever(p) == FALSE
ProcessTerminated(p) == p = "exited"

\* _wait_for_response: one iteration of the polling loop, up to and including
\* its `await asyncio.sleep(0.01)`, where other callers get to run
StdioPoll(w) ==
    /\ kind = "stdio"
    /\ pc[w] = "poll"
    /\ \/ /\ ProcessTerminated(process)         \* "MCP process terminated unexpectedly"
          /\ pc' = [pc EXCEPT ![w] = "failed"]
          /\ UNCHANGED <<response_queue, result, skipped>>
       \/ /\ ~ProcessTerminated(process)
          /\ response_queue = <<>>               \* queue.Empty
          /\ UNCHANGED <<pc, response_queue, result, skipped>>
       \/ /\ ~ProcessTerminated(process)
          /\ response_queue # <<>>
          /\ LET message == Head(response_queue) IN
             IF Matches(message, reqid[w])
             THEN /\ response_queue' = Tail(response_queue)
                  /\ result' = [result EXCEPT ![w] = message]
                  /\ pc' = [pc EXCEPT ![w] = "done"]
                  /\ UNCHANGED skipped
             ELSE /\ response_queue' = Requeue(Tail(response_queue), message)
                  /\ skipped' = [skipped EXCEPT ![w] = TRUE]
                  /\ UNCHANGED <<pc, result>>
    /\ UNCHANGED <<kind, running, request_id, received, process, reader_thread,
                   answered, notified, reqid>>
    /\ UNCHANGED sseVars
    /\ UNCHANGED facadeVars
    /\ UNCHANGED extVars

\* _wait_for_response: the loop condition `time.time() - start_time < self.timeout` fails
StdioTimeout(w) ==
    /\ kind = "stdio"
    /\ pc[w] = "poll"
    /\ pc' = [pc EXCEPT ![w] = "timedout"]
    /\ UNCHANGED <<kind, running, request_id, received, stdioVars, reqid, result>>
    /\ UNCHANGED sseVars
    /\ UNCHANGED facadeVars
    /\ UNCHANGED extVars

StdioNext ==
    \/ StdioStart
    \/ \E w \in Callers : StdioSendRequest(w)
    \/ ChildExit
    \/ ReadMessage
    \/ \E w \in Callers : StdioPoll(w)
    \/ \E w \in Callers : StdioTimeout(w)

\* --------------------------------------------------------- MCPSSEClient

Event(name, i) == [event |-> name, id |-> i]
NoFuture == [state |-> "none", value |-> NoResponse]
WaitingFuture == [state |-> "waiting", value |-> NoResponse]
CancelledFuture == [state |-> "cancelled", value |-> NoResponse]
ResolvedFuture(message) == [state |-> "resolved", value |-> message]

\* future.done()
FutureDone(f) == f.state \in {"resolved", "cancelled"}

\* _send_request, lines 123-141: the pending map when the POST goes out; the
\* future is registered only later, by _wait_for_sse_response
PendingWhenPostedRegistered(p, i) == p \cup {i}
PendingWhenPosted(p, i) == p

\* _wait_for_sse_response: self._pending_requests.pop(request_id, None)
PopPendingKeeps(p, i) == p
PopPending(p, i) == p \ {i}

\* self._session can send: it is set and close() has not begun to close it
\* (httpx refuses a request on a client that is closing or closed)
SessionUsable == sse_session = "open" /\ phase \notin {"close_session", "closed"}

\* _connect, lines 74-79: create the HTTP session, start the listener task
SseConnect ==
    /\ kind = "sse"
    /\ sse_session = "none"
    /\ sse_listener_task = "none"
    /\ sse_session' = "open"
    /\ running' = TRUE
    /\ sse_listener_task' = "active"
    /\ UNCHANGED <<kind, request_id, received, stdioVars, callerVars, connected,
                   messages_url, pending_requests, future, stream, unsolicited, delivered>>
    /\ UNCHANGED facadeVars
    /\ UNCHANGED extVars

\* _listen_to_sse_stream: the GET is answered 200; the server opens the stream
\* with its `endpoint` event
SseStreamOpen ==
    /\ kind = "sse"
    /\ sse_listener_task = "active"
    /\ running
    /\ ~connected
    /\ connected' = TRUE
    /\ stream' = <<Event("endpoint", NoId)>>
    /\ UNCHANGED <<kind, running, request_id, received, stdioVars, callerVars, sse_session,
                   sse_listener_task, messages_url, pending_requests, future,
                   unsolicited, delivered>>
    /\ UNCHANGED facadeVars
    /\ UNCHANGED extVars

\* list_tools / call_tool: _next_id (a fresh uuid), then _send_request up to the POST
SseSendRequest(w) ==
    /\ kind = "sse"
    /\ pc[w] \in Finished
    /\ request_id < MaxRequests
    /\ request_id' = NextId
    /\ reqid' = [reqid EXCEPT ![w] = NextId]
    /\ result' = [result EXCEPT ![w] = NoResponse]
    /\ IF ~messages_url \/ ~SessionUsable
       THEN /\ pc' = [pc EXCEPT ![w] = "failed"]   \* "SSE connection not established", or post() raises
            /\ UNCHANGED <<received, pending_requests>>
       ELSE /\ pc' = [pc EXCEPT ![w] = "posting"]
            /\ received' = received \cup {NextId}
            /\ pending_requests' = PendingWhenPosted(pending_requests, NextId)
    /\ UNCHANGED <<kind, running, stdioVars, sse_session, sse_listener_task, connected,
                   messages_url, future, stream, unsolicited, delivered>>
    /\ UNCHANGED facadeVars
    /\ UNCHANGED extVars

\* the replies the server can give to the POST of request i: 200 with a JSON
\* object (bearing the request's id, another id, or none), 200 with another
\* body, 202/204, or an error status
JsonBodies(i) == {Message(j) : j \in {i, NoId} \cup received}
PostReplies(i) ==
    {[status |-> 200, json |-> TRUE, body |-> m] : m \in JsonBodies(i)}
        \cup {[status |-> st, json |-> FALSE, body |-> NoResponse] : st \in {200, 202, 500}}

\* a POST in flight when close() has closed the HTTP session ends with an
\* httpx error instead of a reply (status 0 here)
ConnectionLost == [status |-> 0, json |-> FALSE, body |-> NoResponse]
PostOutcomes(i) == IF phase = "closed" THEN {ConnectionLost} ELSE PostReplies(i)

\* _send_request, lines 143-164: the POST reply is processed; on 200 with a JSON
\* body the body is returned, on 200/202/204 otherwise _wait_for_sse_response
\* registers the future, any other status raises
SsePostReply(w) ==
    /\ kind = "sse"
    /\ pc[w] = "posting"
    /\ \E reply \in PostOutcomes(reqid[w]) :
        IF reply.status = 200 /\ reply.json
        THEN /\ pc' = [pc EXCEPT ![w] = "done"]
             /\ result' = [result EXCEPT ![w] = reply.body]
             /\ delivered' = [delivered EXCEPT ![reqid[w]] = @ + 1]
             /\ UNCHANGED <<pending_requests, future>>
        ELSE IF reply.status \in {200, 202, 204}
        THEN /\ pc' = [pc EXCEPT ![w] = "waiting"]
             /\ pending_requests' = pending_requests \cup {reqid[w]}
             /\ future' = [future EXCEPT ![reqid[w]] = WaitingFuture]
             /\ UNCHANGED <<result, delivered>>
        ELSE /\ pc' = [pc EXCEPT ![w] = "failed"]
             /\ UNCHANGED <<result, delivered, pending_requests, future>>
    /\ UNCHANGED <<kind, running, request_id, received, stdioVars, reqid, sse_session,
                   sse_listener_task, connected, messages_url, stream, unsolicited>>
    /\ UNCHANGED facadeVars
    /\ UNCHANGED extVars

\* the server sends a `message` event answering a request it has received
ServerEmit(i) ==
    /\ kind = "sse"
    /\ connected
    /\ i \in received
    /\ Len(stream) < MaxStream
    /\ stream' = Append(stream, Event("message", i))
    /\ UNCHANGED <<kind, running, request_id, received, stdioVars, callerVars, sse_session,
                   sse_listener_task, connected, messages_url, pending_requests, future,
                   unsolicited, delivered>>
    /\ UNCHANGED facadeVars
    /\ UNCHANGED extVars

\* _handle_message_event, line 313: `message.id and message.id in self._pending_requests`
IsPendingAnyId(message) == message.id # NoId
IsPending(message) == message.id # NoId /\ message.id \in pending_requests

\* _handle_message_event
HandleMessageEvent(message) ==
    IF IsPending(message)
    THEN /\ pending_requests' = pending_requests \ {message.id}
         /\ IF ~FutureDone(future[message.id])
            THEN /\ future' = [future EXCEPT ![message.id] = ResolvedFuture(message)]
                 /\ delivered' = [delivered EXCEPT ![message.id] = @ + 1]
            ELSE UNCHANGED <<future, delivered>>
         /\ UNCHANGED unsolicited
    ELSE /\ unsolicited' = unsolicited \cup {message.id}
         /\ UNCHANGED <<pending_requests, future, delivered>>

\* _listen_to_sse_stream: the listener takes the next event of the stream
SseHandleEvent ==
    /\ kind = "sse"
    /\ sse_listener_task = "active"
    /\ running
    /\ stream # <<>>
    /\ stream' = Tail(stream)
    /\ LET ev == Head(stream) IN
       IF ev.event = "endpoint"
       THEN /\ messages_url' = TRUE
            /\ UNCHANGED <<pending_requests, future, unsolicited, delivered>>
       ELSE IF ev.id = Unparsable                \* _handle_message_event, lines 306-311
       THEN UNCHANGED <<messages_url, pending_requests, future, unsolicited, delivered>>
       ELSE /\ HandleMessageEvent(Message(ev.id))
            /\ UNCHANGED messages_url
    /\ UNCHANGED <<kind, running, request_id, received, stdioVars, callerVars, sse_session,
                   sse_listener_task, connected>>
    /\ UNCHANGED facadeVars
    /\ UNCHANGED extVars

\* _wait_for_sse_response: the awaited future has a result
SseResume(w) ==
    /\ kind = "sse"
    /\ pc[w] = "waiting"
    /\ future[reqid[w]].state = "resolved"
    /\ pc' = [pc EXCEPT ![w] = "done"]
    /\ result' = [result EXCEPT ![w] = future[reqid[w]].value]
    /\ UNCHANGED <<kind, running, request_id, received, stdioVars, reqid, sseVars>>
    /\ UNCHANGED facadeVars
    /\ UNCHANGED extVars

\* _wait_for_sse_response: asyncio.wait_for times out; it cancels the future and
\* the handler pops the id
SseTimeout(w) ==
    /\ kind = "sse"
    /\ pc[w] = "waiting"
    /\ future[reqid[w]].state = "waiting"
    /\ future' = [future EXCEPT ![reqid[w]] = CancelledFuture]
    /\ pending_requests' = PopPending(pending_requests, reqid[w])
    /\ pc' = [pc EXCEPT ![w] = "timedout"]
    /\ UNCHANGED <<kind, running, request_id, received, stdioVars, reqid, result,
                   sse_session, sse_listener_task, connected, messages_url, stream,
                   unsolicited, delivered>>
    /\ UNCHANGED facadeVars
    /\ UNCHANGED extVars

\* the server sends a `message` event that carries no id (a notification)
ServerNotifies ==
    /\ kind = "sse"
    /\ connected
    /\ Len(stream) < MaxStream
    /\ stream' = Append(stream, Event("message", NoId))
    /\ UNCHANGED <<kind, running, request_id, received, stdioVars, callerVars, sse_session,
                   sse_listener_task, connected, messages_url, pending_requests, future,
                   unsolicited, delivered>>
    /\ UNCHANGED facadeVars
    /\ UNCHANGED extVars

closeFrame == <<kind, request_id, received, stdioVars, callerVars, messages_url, unsolicited,
                delivered, facadeVars, sent, init_response, signals, obeys_terminate,
                opVars, setupVars, launchVars, moreVars>>

\* close(), lines 281-289: _running = False, the listener task is cancelled
\* and awaited; its GET stream ends with it
SseCloseBegin ==
    /\ kind = "sse"
    /\ phase = "new"
    /\ sse_session = "open"
    /\ sse_listener_task = "active"
    /\ running' = FALSE
    /\ sse_listener_task' = "done"
    /\ connected' = FALSE
    /\ stream' = <<>>
    /\ phase' = "close_listener"
    /\ UNCHANGED <<sse_session, pending_requests, future>>
    /\ UNCHANGED closeFrame

\* close(), lines 291-297: every future that is not done is cancelled, the
\* map is cleared, then the HTTP session's aclose() is awaited
CancelAll(f, p) ==
    [i \in Ids |-> IF i \in p /\ ~FutureDone(f[i]) THEN CancelledFuture ELSE f[i]]
SseCloseFutures ==
    /\ kind = "sse"
    /\ phase = "close_listener"
    /\ future' = CancelAll(future, pending_requests)
    /\ pending_requests' = {}
    /\ phase' = "close_session"
    /\ UNCHANGED <<running, sse_session, sse_listener_task, connected, stream>>
    /\ UNCHANGED closeFrame

\* close(), lines 296-299: aclose() returns, self._session = None
SseCloseEnds ==
    /\ kind = "sse"
    /\ phase = "close_session"
    /\ sse_session' = "none"
    /\ phase' = "closed"
    /\ UNCHANGED <<running, sse_listener_task, connected, stream, pending_requests, future>>
    /\ UNCHANGED closeFrame

\* _wait_for_sse_response: the awaited future was cancelled by close();
\* asyncio.wait_for raises CancelledError, which no clause catches
SseCancelled(w) ==
    /\ kind = "sse"
    /\ pc[w] = "waiting"
    /\ future[reqid[w]].state = "cancelled"
    /\ pc' = [pc EXCEPT ![w] = "failed"]
    /\ UNCHANGED <<kind, running, request_id, received, stdioVars, reqid, result, sseVars>>
    /\ UNCHANGED facadeVars
    /\ UNCHANGED extVars

SseNext ==
    \/ SseConnect
    \/ SseStreamOpen
    \/ \E w \in Callers : SseSendRequest(w)
    \/ \E w \in Callers : SsePostReply(w)
    \/ \E i \in Ids : ServerEmit(i)
    \/ SseHandleEvent
    \/ \E w \in Callers : SseResume(w)
    \/ \E w \in Callers : SseTimeout(w)
    \/ ServerNotifies
    \/ SseCloseBegin
    \/ SseCloseFutures
    \/ SseCloseEnds
    \/ \E w \in Callers : SseCancelled(w)

\* -------------------------------------------------------------- MCPClient

Children == 1..MaxChildren
Urls == 1..MaxUrls
Targets == {"npx", "url", "https_url", "other"}
TransportArgs == {"auto", "http", "stdio", "sse"}
Operations == {"get_server_info", "get_tools", "call_tool"}
CloseSteps == {"session", "npx", "stdio", "sse"}

DetectByTarget(arg, target) == IF target \in {"url", "https_url"} THEN "http" ELSE "stdio"

\* _detect_transport_type
DetectTransportType(arg, target) ==
    IF arg # "auto" THEN arg
    ELSE IF target \in {"url", "https_url"} THEN "http" ELSE "stdio"

\* close, line 893: self._stdio_client = None
StdioClientKept(ref) == ref
StdioClientAfterClose(ref) == 0

RunningChildren == {k \in Children : children[k] = "running"}
Tracked == {active_servers[u] : u \in Urls} \ {0}

protoRest == <<kind, request_id, received, stdioVars, callerVars, connected, messages_url,
               future, stream, unsolicited, delivered>>

\* the MCP request an operation sends once the transport is set up
\* (MCPStdioClient.get_server_info and MCPSSEClient.get_server_info send none)
RequestOf(op) ==
    IF op = "get_tools" THEN "tools/list"
    ELSE IF op = "call_tool" THEN "tools/call" ELSE "none"

\* what reaches the caller when _ensure_server_ready fails on stdio: the call
\* is outside the try blocks of get_server_info / get_tools / call_tool and its
\* stdio branch wraps nothing
StdioSetupError == "Exception"

\* _ensure_server_ready on the stdio transport: a new MCPStdioClient replaces
\* the reference, and its __aenter__ spawns a child; the spawn may fail, and so
\* may the handshake after it
EnsureStdio(setup) ==
    /\ instances < MaxChildren
    /\ instances' = instances + 1
    /\ stdio_client' = instances + 1
    /\ children' = [children EXCEPT ![instances + 1] =
                       IF setup = "spawn_failed" THEN "unborn" ELSE "running"]
    /\ handshake' = IF setup = "ready" THEN "done"
                    ELSE IF setup = "handshake_failed" THEN "failed" ELSE "none"
    /\ UNCHANGED <<transport, client_session, npx_manager, active_servers, sse_client,
                   running, sse_session, sse_listener_task, pending_requests>>

\* _ensure_server_ready on the http transport with an npx target: launch_server
\* starts a new process; a failed start stops it again, a successful one is
\* stored under its URL. get_server_info and get_tools then open the session.
EnsureNpx(setup, op) ==
    /\ instances < MaxChildren
    /\ instances' = instances + 1
    /\ npx_manager' = TRUE
    /\ \/ /\ setup = "launch_failed"
          /\ children' = [children EXCEPT ![instances + 1] = "exited"]
          /\ UNCHANGED <<active_servers, client_session>>
       \/ /\ setup = "ready"
          /\ children' = [children EXCEPT ![instances + 1] = "running"]
          /\ \E u \in Urls : active_servers' = [active_servers EXCEPT ![u] = instances + 1]
          /\ client_session' = IF op = "call_tool" THEN client_session ELSE "open"
    /\ UNCHANGED <<transport, stdio_client, sse_client, handshake,
                   running, sse_session, sse_listener_task, pending_requests>>

\* _ensure_server_ready on the http transport with a URL: the probe classifies
\* the endpoint; on "sse" the transport is switched and an MCPSSEClient is
\* connected (its session and listener stay when the connection fails: without
\* the endpoint, or with the endpoint and a failed `initialize`)
EnsureUrl(probe, setup, op) ==
    /\ IF probe = "sse"
       THEN /\ transport' = "sse"
            /\ sse_client' = TRUE
            /\ sse_session' = "open"
            /\ running' = TRUE
            /\ sse_listener_task' = "active"
            /\ handshake' = IF setup = "ready" THEN "done"
                            ELSE IF setup = "handshake_failed" THEN "failed"
                            ELSE "no_endpoint"
            /\ UNCHANGED client_session
       ELSE /\ client_session' = IF op = "call_tool" THEN client_session ELSE "open"
            /\ UNCHANGED <<transport, sse_client, sse_session, running, sse_listener_task,
                           handshake>>
    /\ UNCHANGED <<npx_manager, active_servers, stdio_client, children, instances,
                   pending_requests>>

\* the request of get_server_info / get_tools / call_tool on a client that is
\* set up: it returns, or its failure is re-raised as MCPClientError
Request(op, shake) ==
    /\ tool_requests' = IF RequestOf(op) = "none" THEN tool_requests
                        ELSE tool_requests \cup {<<RequestOf(op), shake>>}
    /\ op_outcome' \in {"returned", "MCPClientError"}

\* get_server_info / get_tools / call_tool: _ensure_server_ready, then the request
Call(op) ==
    /\ kind = "facade"
    /\ close_calls = 0
    /\ \/ /\ transport = "stdio"
          /\ \E setup \in {"spawn_failed", "handshake_failed", "ready"} :
               /\ EnsureStdio(setup)
               /\ IF setup = "ready"
                  THEN Request(op, "done")
                  ELSE op_outcome' = StdioSetupError /\ UNCHANGED tool_requests
       \/ /\ transport = "http"
          /\ is_npx_server
          /\ \E setup \in {"launch_failed", "ready"} :
               /\ EnsureNpx(setup, op)
               /\ tool_requests' = tool_requests   \* plain HTTP: a GET, and no call_tool
               /\ op_outcome' \in IF setup = "ready" /\ op # "call_tool"
                                  THEN {"returned", "MCPClientError"}
                                  ELSE {"MCPClientError"}
       \/ /\ transport = "http"
          /\ ~is_npx_server
          /\ \E probe \in {"http", "sse"}, setup \in {"no_endpoint", "handshake_failed", "ready"} :
               /\ probe = "http" => setup = "ready"
               /\ EnsureUrl(probe, setup, op)
               /\ IF probe = "sse"
                  THEN IF setup = "ready"
                       THEN Request(op, "done")
                       ELSE op_outcome' = "MCPClientError" /\ UNCHANGED tool_requests
                  ELSE /\ UNCHANGED tool_requests
                       /\ op_outcome' \in IF op # "call_tool"
                                          THEN {"returned", "MCPClientError"}
                                          ELSE {"MCPClientError"}
       \/ /\ transport = "sse"                   \* no branch of _ensure_server_ready
          /\ IF sse_client /\ handshake # "no_endpoint"
             THEN Request(op, handshake)
             ELSE /\ UNCHANGED tool_requests
                  /\ op_outcome' \in IF sse_client /\ op = "get_server_info"
                                     THEN {"returned", "MCPClientError"}
                                     ELSE {"MCPClientError"}
          /\ UNCHANGED <<transport, client_session, npx_manager, active_servers,
                         stdio_client, sse_client, children, instances, handshake,
                         running, sse_session, sse_listener_task, pending_requests>>
    /\ UNCHANGED <<is_npx_server, close_outcome, close_calls, teardown, logged, protoRest>>
    /\ UNCHANGED sessionVars
    /\ UNCHANGED setupVars
    /\ UNCHANGED moreVars
    /\ UNCHANGED launchVars

\* _listen_to_sse_stream keeps running after a connection setup that timed out
\* waiting for the endpoint: a later `endpoint` event sets the messages URL
SseLateEndpoint ==
    /\ kind = "facade"
    /\ sse_client
    /\ sse_listener_task = "active"
    /\ handshake = "no_endpoint"
    /\ handshake' = "never_sent"
    /\ UNCHANGED <<op_outcome, tool_requests>>
    /\ UNCHANGED facadeVars
    /\ UNCHANGED <<running, sse_session, sse_listener_task, pending_requests, protoRest>>
    /\ UNCHANGED sessionVars
    /\ UNCHANGED setupVars
    /\ UNCHANGED moreVars
    /\ UNCHANGED launchVars

\* a child exits on its own
ChildDies(k) ==
    /\ kind = "facade"
    /\ children[k] = "running"
    /\ children' = [children EXCEPT ![k] = "exited"]
    /\ UNCHANGED <<transport, is_npx_server, client_session, npx_manager, active_servers,
                   stdio_client, sse_client, instances, close_outcome, close_calls,
                   teardown, logged, running, sse_session, sse_listener_task,
                   pending_requests, protoRest>>
    /\ UNCHANGED extVars

\* MCPClient.close with NPXServerManager.stop_all_servers, MCPStdioClient.close
\* and MCPSSEClient.close; `fails` are the teardown steps that raise when they
\* are run: closing an HTTP session propagates, terminating a process is logged
Close(fails) ==
    /\ kind = "facade"
    /\ close_calls < MaxCloses
    /\ close_calls' = close_calls + 1
    /\ LET raise1 == client_session = "open" /\ "session" \in fails
           step2 == ~raise1 /\ npx_manager
           step3 == ~raise1 /\ stdio_client # 0
           step4 == ~raise1 /\ sse_client
           raise4 == step4 /\ sse_session = "open" /\ "sse" \in fails
           stopped == (IF step2 /\ "npx" \notin fails THEN Tracked ELSE {})
                        \cup (IF step3 /\ "stdio" \notin fails THEN {stdio_client} ELSE {})
       IN
       /\ client_session' = IF raise1 THEN client_session ELSE "none"
       /\ npx_manager' = IF step2 THEN FALSE ELSE npx_manager
       /\ active_servers' = IF step2 THEN [u \in Urls |-> 0] ELSE active_servers
       /\ stdio_client' = IF step3 THEN StdioClientAfterClose(stdio_client) ELSE stdio_client
       /\ children' = [k \in Children |->
                          IF k \in stopped /\ children[k] = "running" THEN "exited"
                          ELSE children[k]]
       /\ running' = IF step4 THEN FALSE ELSE running
       /\ sse_listener_task' = IF step4 /\ sse_listener_task = "active" THEN "done"
                               ELSE sse_listener_task
       /\ pending_requests' = IF step4 THEN {} ELSE pending_requests
       /\ sse_session' = IF step4 /\ ~raise4 THEN "none" ELSE sse_session
       /\ sse_client' = IF step4 /\ ~raise4 THEN FALSE ELSE sse_client
       /\ close_outcome' = IF raise1 \/ raise4 THEN "raised" ELSE "returned"
       /\ teardown' = (IF client_session = "open" THEN {"session"} ELSE {})
                        \cup (IF step2 THEN {"npx"} ELSE {})
                        \cup (IF step3 THEN {"stdio"} ELSE {})
                        \cup (IF step4 THEN {"sse"} ELSE {})
       /\ logged' = (IF step2 /\ "npx" \in fails /\ (Tracked \cap RunningChildren) # {}
                     THEN {"npx"} ELSE {})
                      \cup (IF step3 /\ "stdio" \in fails /\ stdio_client \in RunningChildren
                            THEN {"stdio"} ELSE {})
    /\ UNCHANGED <<transport, is_npx_server, instances, protoRest>>
    /\ UNCHANGED extVars

ClientNext ==
    \/ \E op \in Operations : Call(op)
    \/ SseLateEndpoint
    \/ \E k \in Children : ChildDies(k)
    \/ \E fails \in SUBSET CloseSteps : Close(fails)

\* ------------------------------------- one client session: setup and close

\* the `error` field of a response: absent (None), an empty object, a filled object
ErrorFields == {"absent", "empty", "present"}

\* `if response.error:` in _initialize_connection / _initialize_mcp_connection
ErrorRaisedAlways(e) == TRUE
ErrorRaised(e) == e = "present"

\* MCPStdioClient.close / NPXServerProcess.stop: `except asyncio.TimeoutError:
\* self.process.kill()`, after the bounded wait for the child's exit
KillsAlways(child) == TRUE
KillsWhen(child) == child = "running"

\* the positions of a client in close()
Closing == {"terminate_wait", "joining"}

\* NPXServerProcess.start, lines 141-146: both except clauses `await self.stop()`
\* before raising; stop() requests termination if there is a process handle
FailedStartRaisesAtOnce(has_process) == "setup_failed"
FailedStart(has_process) == IF has_process THEN "terminate_wait" ELSE "setup_failed"

\* MCPStdioClient.__aenter__ -> _start_process: Popen, reader thread, then the
\* `initialize` request of _initialize_connection; NPXServerProcess.start: Popen,
\* then the wait for the server URL (no handshake)
SessionStart ==
    /\ kind \in {"stdio_session", "npx_process"}
    /\ phase = "new"
    /\ \/ /\ process' = "none"                   \* Popen raises
          /\ phase' = "setup_failed"
          /\ UNCHANGED <<running, reader_thread, request_id, sent>>
       \/ /\ kind = "stdio_session"
          /\ process' = "running"
          /\ running' = TRUE
          /\ reader_thread' = "alive"
          /\ request_id' = NextId
          /\ sent' = Append(sent, "initialize")
          /\ phase' = "init_wait"
       \/ /\ kind = "npx_process"
          /\ process' = "running"
          /\ phase' = "url_wait"
          /\ UNCHANGED <<running, reader_thread, request_id, sent>>
    /\ UNCHANGED <<kind, received, response_queue, answered, notified, skipped, callerVars,
                   init_response, signals, obeys_terminate>>
    /\ UNCHANGED sseVars
    /\ UNCHANGED facadeVars
    /\ UNCHANGED opVars
    /\ UNCHANGED setupVars
    /\ UNCHANGED moreVars
    /\ UNCHANGED launchVars

\* _initialize_connection, lines 149-156: the `initialize` response has
\* arrived; an error raises, otherwise `notifications/initialized` is sent
SessionInitResponse(e) ==
    /\ kind = "stdio_session"
    /\ phase = "init_wait"
    /\ process = "running"
    /\ init_response' = e
    /\ IF ErrorRaised(e)
       THEN phase' = "setup_failed" /\ UNCHANGED sent
       ELSE phase' = "ready" /\ sent' = Append(sent, "notifications/initialized")
    /\ UNCHANGED <<kind, running, request_id, received, stdioVars, callerVars,
                   signals, obeys_terminate>>
    /\ UNCHANGED sseVars
    /\ UNCHANGED facadeVars
    /\ UNCHANGED opVars
    /\ UNCHANGED setupVars
    /\ UNCHANGED moreVars
    /\ UNCHANGED launchVars

\* the wait of the setup ends without a response: _wait_for_response times out
\* or finds the child exited; NPXServerProcess._wait_for_server_ready ends by
\* finding the URL or by failing, and a failed start runs stop()
SessionSetupEnds ==
    /\ kind \in {"stdio_session", "npx_process"}
    /\ \/ /\ kind = "stdio_session"
          /\ phase = "init_wait"
          /\ phase' = "setup_failed"
          /\ UNCHANGED <<running, signals>>
       \/ /\ kind = "npx_process"
          /\ phase = "url_wait"
          /\ process = "running"
          /\ phase' = "ready"
          /\ server_url' = Url("localhost", 3000)
          /\ UNCHANGED <<running, signals>>
       \/ /\ kind = "npx_process"                \* the child exited, or the time is up
          /\ phase = "url_wait"
          /\ phase' = FailedStart(process # "none")
          /\ signals' = IF phase' = "terminate_wait" THEN Append(signals, "terminate")
                        ELSE signals
          /\ UNCHANGED <<running, server_url>>
    /\ kind = "stdio_session" => UNCHANGED server_url
    /\ UNCHANGED <<kind, request_id, received, stdioVars, callerVars,
                   sent, init_response, obeys_terminate>>
    /\ UNCHANGED sseVars
    /\ UNCHANGED facadeVars
    /\ UNCHANGED opVars
    /\ UNCHANGED setupVars
    /\ UNCHANGED moreVars
    /\ UNCHANGED <<command_prefix, env_vars, environ, child_env, line, applied>>

\* list_tools / call_tool of a client whose setup has returned: the request is
\* written to the child
SessionRequest(method) ==
    /\ kind = "stdio_session"
    /\ phase = "ready"
    /\ process # "none"
    /\ Len(sent) < MaxSent
    /\ request_id' = NextId
    /\ sent' = Append(sent, method)
    /\ UNCHANGED <<kind, running, received, stdioVars, callerVars,
                   phase, init_response, signals, obeys_terminate>>
    /\ UNCHANGED sseVars
    /\ UNCHANGED facadeVars
    /\ UNCHANGED opVars
    /\ UNCHANGED setupVars
    /\ UNCHANGED moreVars
    /\ UNCHANGED launchVars

\* the child exits: on its own while the session is in use, and after the
\* terminate signal if it does not ignore it
SessionChildExit ==
    /\ kind \in {"stdio_session", "npx_process"}
    /\ process = "running"
    /\ phase \notin Closing \/ obeys_terminate
    /\ process' = "exited"
    /\ UNCHANGED <<kind, running, request_id, received, reader_thread, response_queue,
                   answered, notified, skipped, callerVars, sessionVars>>
    /\ UNCHANGED sseVars
    /\ UNCHANGED facadeVars
    /\ UNCHANGED opVars
    /\ UNCHANGED setupVars
    /\ UNCHANGED moreVars
    /\ UNCHANGED launchVars

\* MCPStdioClient.close, lines 279-284 / NPXServerProcess.stop, lines 150-153:
\* with a process handle, request termination and start the bounded wait
SessionClose ==
    /\ kind \in {"stdio_session", "npx_process"}
    /\ phase \in {"ready", "setup_failed", "start_failed", "closed"}
    /\ running' = IF kind = "stdio_session" THEN FALSE ELSE running
    /\ IF process # "none"
       THEN /\ signals' = Append(signals, "terminate")
            /\ phase' = "terminate_wait"
       ELSE /\ phase' = IF kind = "stdio_session" THEN "joining" ELSE "closed"
            /\ UNCHANGED signals
    /\ UNCHANGED <<kind, request_id, received, stdioVars, callerVars,
                   sent, init_response, obeys_terminate>>
    /\ UNCHANGED sseVars
    /\ UNCHANGED facadeVars
    /\ UNCHANGED opVars
    /\ UNCHANGED setupVars
    /\ UNCHANGED moreVars
    /\ UNCHANGED launchVars

\* the bounded wait ends: the child has exited, or the 5 s are over and the
\* child is killed; then the handle is dropped
SessionWaitEnds ==
    /\ kind \in {"stdio_session", "npx_process"}
    /\ phase = "terminate_wait"
    /\ signals' = IF KillsWhen(process) THEN Append(signals, "kill") ELSE signals
    /\ process' = "none"
    /\ server_url' = NoMatch                     \* stop(), line 167 (None already on stdio)
    /\ phase' = IF kind = "stdio_session" THEN "joining"
                ELSE IF server_url = NoMatch THEN "start_failed"   \* start() raises now
                ELSE "closed"
    /\ UNCHANGED <<kind, running, request_id, received, reader_thread, response_queue,
                   answered, notified, skipped, callerVars,
                   sent, init_response, obeys_terminate>>
    /\ UNCHANGED sseVars
    /\ UNCHANGED facadeVars
    /\ UNCHANGED opVars
    /\ UNCHANGED setupVars
    /\ UNCHANGED moreVars
    /\ UNCHANGED <<command_prefix, env_vars, environ, child_env, line, applied>>

\* MCPStdioClient.close, lines 301-302: join the reader thread for at most 2 s
SessionJoin ==
    /\ kind = "stdio_session"
    /\ phase = "joining"
    /\ \E after \in (IF reader_thread = "alive" THEN {"alive", "stopped"}
                     ELSE {reader_thread}) : reader_thread' = after
    /\ phase' = "closed"
    /\ UNCHANGED <<kind, running, request_id, received, process, response_queue,
                   answered, notified, skipped, callerVars,
                   sent, init_response, signals, obeys_terminate>>
    /\ UNCHANGED sseVars
    /\ UNCHANGED facadeVars
    /\ UNCHANGED opVars
    /\ UNCHANGED setupVars
    /\ UNCHANGED moreVars
    /\ UNCHANGED launchVars

\* --- one MCPSSEClient: _connect with its listener loop, then requests

\* the payload of an `endpoint` event: the empty string, white space only, an
\* absolute URL of another scheme, a relative reference, an http(s) URL
EndpointPayloads == {"empty", "blank", "other_scheme", "http"}

\* _handle_endpoint_event: `if not data: return`, then
\* urljoin(self.sse_url, data.strip()) and the check of the scheme; white space
\* only is not empty and joins to the SSE URL itself
UsableAlways(data) == TRUE
UsableEndpoint(data) == data \in {"blank", "http"}

SessionEvent(name, i, data) == [event |-> name, id |-> i, data |-> data]

Min(a, b) == IF a < b THEN a ELSE b

\* the positions of the owner between two requests
Settled == {"ready", "setup_failed", "done", "failed", "timedout", "rejected"}

sseFrame == <<kind, stdioVars, callerVars, connected, signals, obeys_terminate, moreVars>>

\* _connect, lines 74-79: session, _running, endpoint event, listener task
SseSessionConnect ==
    /\ kind = "sse_session"
    /\ phase = "new"
    /\ sse_session' = "open"
    /\ running' = TRUE
    /\ sse_listener_task' = "active"
    /\ listener' = "get"
    /\ phase' = "endpoint_wait"
    /\ UNCHANGED <<request_id, received, messages_url, pending_requests, future, stream,
                   unsolicited, delivered, sent, init_response, drops, started_down>>
    /\ UNCHANGED <<sseFrame, facadeVars, opVars, launchVars>>

\* _listen_to_sse_stream, lines 175-191 and 211-216: the GET is answered 200,
\* answered with another status, or raises
SseGet(outcome) ==
    /\ kind = "sse_session"
    /\ listener = "get"
    /\ running
    /\ IF outcome = "ok"
       THEN listener' = "streaming" /\ UNCHANGED drops
       ELSE listener' = "backoff" /\ drops' = Min(drops + 1, MaxDrops)
    /\ stream' = <<>>
    /\ UNCHANGED <<running, request_id, received, sse_session, sse_listener_task,
                   messages_url, pending_requests, future, unsolicited, delivered,
                   phase, sent, init_response, started_down>>
    /\ UNCHANGED <<sseFrame, facadeVars, opVars, launchVars>>

\* the server writes an event on the open stream: an `endpoint` event, or the
\* `message` event answering the latest request it has received; the listener
\* takes each event before the next one arrives
SseServerSends(ev) ==
    /\ kind = "sse_session"
    /\ listener = "streaming"
    /\ stream = <<>>
    /\ ev.event = "message" => (ev.id = request_id /\ ev.id \in received)
    /\ stream' = Append(stream, ev)
    /\ UNCHANGED <<running, request_id, received, sse_session, sse_listener_task,
                   messages_url, pending_requests, future, unsolicited, delivered,
                   phase, sent, init_response, setupVars>>
    /\ UNCHANGED <<sseFrame, facadeVars, opVars, launchVars>>

\* _listen_to_sse_stream, lines 194-207: the next event of the stream is
\* dispatched to _handle_endpoint_event or _handle_message_event
SseListenerHandle ==
    /\ kind = "sse_session"
    /\ listener = "streaming"
    /\ running
    /\ stream # <<>>
    /\ stream' = Tail(stream)
    /\ LET ev == Head(stream) IN
       IF ev.event = "endpoint"
       THEN /\ messages_url' = (messages_url \/ UsableEndpoint(ev.data))
            /\ UNCHANGED <<pending_requests, future, unsolicited, delivered>>
       ELSE /\ HandleMessageEvent(Message(ev.id))
            /\ UNCHANGED messages_url
    /\ UNCHANGED <<running, request_id, received, sse_session, sse_listener_task,
                   phase, sent, init_response, listener, drops, started_down>>
    /\ UNCHANGED <<sseFrame, facadeVars, opVars, launchVars>>

\* the open stream ends or breaks: lines 209 and 212-216, the listener sleeps 1 s
SseStreamEnds ==
    /\ kind = "sse_session"
    /\ listener = "streaming"
    /\ listener' = "backoff"
    /\ drops' = Min(drops + 1, MaxDrops)
    /\ stream' = <<>>
    /\ UNCHANGED <<running, request_id, received, sse_session, sse_listener_task,
                   messages_url, pending_requests, future, unsolicited, delivered,
                   phase, sent, init_response, started_down>>
    /\ UNCHANGED <<sseFrame, facadeVars, opVars, launchVars>>

\* the sleep is over: `while self._running` starts the next GET
SseBackoffEnds ==
    /\ kind = "sse_session"
    /\ listener = "backoff"
    /\ listener' = IF running THEN "get" ELSE "stopped"
    /\ UNCHANGED <<running, request_id, received, sse_session, sse_listener_task,
                   messages_url, pending_requests, future, stream, unsolicited, delivered,
                   phase, sent, init_response, drops, started_down>>
    /\ UNCHANGED <<sseFrame, facadeVars, opVars, launchVars>>

\* the owner has the response `e` to its current request in hand (`real`: it is
\* the server's response to that request, not another JSON body):
\* _initialize_mcp_connection, lines 104-117, raises on an error and otherwise
\* POSTs `notifications/initialized`, which may fail; list_tools / call_tool
\* raise on an error
Complete(e, real) ==
    IF sent[Len(sent)] = "initialize"
    THEN /\ init_response' = IF real THEN e ELSE init_response
         /\ IF ErrorRaised(e)
            THEN phase' = "setup_failed" /\ UNCHANGED sent
            ELSE /\ sent' = Append(sent, "notifications/initialized")
                 /\ phase' \in {"ready", "setup_failed"}
    ELSE /\ phase' = IF ErrorRaised(e) THEN "failed" ELSE "done"
         /\ UNCHANGED <<sent, init_response>>

\* _connect, lines 81-86: the wait for the endpoint event ends, by the event
\* (then `initialize` is POSTed) or by the timeout
SseEndpointWaitEnds ==
    /\ kind = "sse_session"
    /\ phase = "endpoint_wait"
    /\ IF messages_url
       THEN /\ request_id' = NextId
            /\ received' = received \cup {NextId}
            /\ pending_requests' = PendingWhenPosted(pending_requests, NextId)
            /\ sent' = Append(sent, "initialize")
            /\ started_down' = (listener # "streaming")
            /\ phase' = "posting"
       ELSE /\ phase' = "setup_failed"
            /\ UNCHANGED <<request_id, received, pending_requests, sent, started_down>>
    /\ UNCHANGED <<running, sse_session, sse_listener_task, messages_url, future, stream,
                   unsolicited, delivered, init_response, listener, drops>>
    /\ UNCHANGED <<sseFrame, facadeVars, opVars, launchVars>>

\* list_tools / call_tool -> _send_request, lines 123-141: without a messages
\* URL the request is refused, otherwise it is POSTed
SseSessionRequest(method) ==
    /\ kind = "sse_session"
    /\ phase \in Settled
    /\ Len(sent) < MaxSent
    /\ request_id < MaxRequests
    /\ request_id' = NextId
    /\ IF ~messages_url
       THEN /\ phase' = "rejected"               \* "SSE connection not established"
            /\ UNCHANGED <<received, pending_requests, sent, started_down>>
       ELSE /\ received' = received \cup {NextId}
            /\ pending_requests' = PendingWhenPosted(pending_requests, NextId)
            /\ sent' = Append(sent, method)
            /\ started_down' = (listener # "streaming")
            /\ phase' = "posting"
    /\ UNCHANGED <<running, sse_session, sse_listener_task, messages_url, future, stream,
                   unsolicited, delivered, init_response, listener, drops>>
    /\ UNCHANGED <<sseFrame, facadeVars, opVars, launchVars>>

\* _send_request, lines 143-164: the POST reply: 200 with the JSON response,
\* 200 with another JSON body, 200/202/204 without one, another status
SseSessionPostReply(reply) ==
    /\ kind = "sse_session"
    /\ phase = "posting"
    /\ \/ /\ reply \in {"json_response", "json_other"}
          /\ \E e \in (IF reply = "json_response" THEN ErrorFields ELSE {"absent"}) :
                Complete(e, reply = "json_response")
          /\ delivered' = [delivered EXCEPT ![request_id] = @ + 1]
          /\ UNCHANGED <<pending_requests, future>>
       \/ /\ reply = "accepted"
          /\ pending_requests' = pending_requests \cup {request_id}
          /\ future' = [future EXCEPT ![request_id] = WaitingFuture]
          /\ phase' = "waiting"
          /\ UNCHANGED <<delivered, sent, init_response>>
       \/ /\ reply = "error_status"
          /\ phase' = IF sent[Len(sent)] = "initialize" THEN "setup_failed" ELSE "failed"
          /\ UNCHANGED <<pending_requests, future, delivered, sent, init_response>>
    /\ UNCHANGED <<running, request_id, received, sse_session, sse_listener_task,
                   messages_url, stream, unsolicited, setupVars>>
    /\ UNCHANGED <<sseFrame, facadeVars, opVars, launchVars>>

\* _wait_for_sse_response: the awaited future has a result
SseSessionResume ==
    /\ kind = "sse_session"
    /\ phase = "waiting"
    /\ future[request_id].state = "resolved"
    /\ \E e \in ErrorFields : Complete(e, TRUE)
    /\ UNCHANGED <<running, request_id, received, sse_session, sse_listener_task,
                   messages_url, pending_requests, future, stream, unsolicited, delivered,
                   setupVars>>
    /\ UNCHANGED <<sseFrame, facadeVars, opVars, launchVars>>

\* _wait_for_sse_response: the wait times out and the id is popped
SseSessionTimeout ==
    /\ kind = "sse_session"
    /\ phase = "waiting"
    /\ future[request_id].state = "waiting"
    /\ future' = [future EXCEPT ![request_id] = CancelledFuture]
    /\ pending_requests' = PopPending(pending_requests, request_id)
    /\ phase' = IF sent[Len(sent)] = "initialize" THEN "setup_failed" ELSE "timedout"
    /\ UNCHANGED <<running, request_id, received, sse_session, sse_listener_task,
                   messages_url, stream, unsolicited, delivered, sent, init_response,
                   setupVars>>
    /\ UNCHANGED <<sseFrame, facadeVars, opVars, launchVars>>

SseSessionNext ==
    \/ SseSessionConnect
    \/ \E outcome \in {"ok", "rejected", "failed"} : SseGet(outcome)
    \/ \E data \in EndpointPayloads : SseServerSends(SessionEvent("endpoint", NoId, data))
    \/ \E i \in Ids : SseServerSends(SessionEvent("message", i, "response"))
    \/ SseListenerHandle
    \/ SseStreamEnds
    \/ SseBackoffEnds
    \/ SseEndpointWaitEnds
    \/ \E method \in {"tools/list", "tools/call"} : SseSessionRequest(method)
    \/ \E reply \in {"json_response", "json_other", "accepted", "error_status"} :
         SseSessionPostReply(reply)
    \/ SseSessionResume
    \/ SseSessionTimeout

SessionNext ==
    \/ SessionStart
    \/ \E e \in ErrorFields : SessionInitResponse(e)
    \/ SessionSetupEnds
    \/ \E method \in {"tools/list", "tools/call"} : SessionRequest(method)
    \/ SessionChildExit
    \/ SessionClose
    \/ SessionWaitEnds
    \/ SessionJoin
    \/ SseSessionNext

\* ------------------------------------------------------------ specification

\* ---------------------------------------------------- NPXServerManager

\* get_active_servers: list(self._active_servers.keys())
GetActiveServers == {u \in Urls : active_servers[u] # 0}

\* stop() of server k, as the manager sees it: the process is gone afterwards
StopChild(ch, ks) == [k \in Children |-> IF k \in ks /\ ch[k] = "running" THEN "exited"
                                          ELSE ch[k]]

managerFrame == <<kind, running, request_id, received, stdioVars, callerVars, sseVars,
                  transport, is_npx_server, client_session, npx_manager, stdio_client,
                  sse_client, close_outcome, close_calls, teardown, logged,
                  sessionVars, opVars, setupVars, launchVars, pureVars, inputVars,
                  discoveryVars, targetVars>>

\* launch_server: a new NPXServerProcess is started; a failed start() has
\* stopped it and raises, a successful one is stored under the URL it returned
LaunchServer(u, ok) ==
    /\ kind = "manager"
    /\ instances < MaxChildren
    /\ instances' = instances + 1
    /\ IF ok
       THEN /\ children' = [children EXCEPT ![instances + 1] = "running"]
            /\ child_url' = [child_url EXCEPT ![instances + 1] = u]
            /\ active_servers' = [active_servers EXCEPT ![u] = instances + 1]
       ELSE /\ children' = [children EXCEPT ![instances + 1] = "exited"]
            /\ UNCHANGED <<child_url, active_servers>>
    /\ UNCHANGED stops
    /\ UNCHANGED managerFrame

\* stop_server: `if server_url in self._active_servers`: stop it, delete the entry
StopServer(u) ==
    /\ kind = "manager"
    /\ IF active_servers[u] # 0
       THEN /\ children' = StopChild(children, {active_servers[u]})
            /\ stops' = stops \cup {active_servers[u]}
            /\ active_servers' = [active_servers EXCEPT ![u] = 0]
       ELSE UNCHANGED <<children, stops, active_servers>>
    /\ UNCHANGED <<instances, child_url>>
    /\ UNCHANGED managerFrame

\* stop_all_servers: stop every stored server, clear the dictionary
StopAllServers ==
    /\ kind = "manager"
    /\ children' = StopChild(children, Tracked)
    /\ stops' = stops \cup Tracked
    /\ active_servers' = [u \in Urls |-> 0]
    /\ UNCHANGED <<instances, child_url>>
    /\ UNCHANGED managerFrame

\* a launched server exits on its own
ServerExits(k) ==
    /\ kind = "manager"
    /\ children[k] = "running"
    /\ children' = [children EXCEPT ![k] = "exited"]
    /\ UNCHANGED <<instances, child_url, stops, active_servers>>
    /\ UNCHANGED managerFrame

ManagerNext ==
    \/ \E u \in Urls, ok \in BOOLEAN : LaunchServer(u, ok)
    \/ \E u \in Urls : StopServer(u)
    \/ StopAllServers
    \/ \E k \in Children : ServerExits(k)

\* ------------------------------------------------- launcher: pure functions

\* a variable name is a sequence of characters; "a" stands for a lower-case
\* letter, "A" and "B" for upper-case ones
UpperChars == {"A", "B"}
Names == {<<"A">>, <<"B">>, <<"a">>, <<"a", "B">>}
Absent == "absent"
EmptyEnv == [n \in Names |-> Absent]

\* dict.update: the entries of `other` replace those of `env`
Update(env, other) == [n \in Names |-> IF other[n] # Absent THEN other[n] ELSE env[n]]

\* what the patterns of _parse_env_assignments capture as the name in the
\* text `name=value` (r"export\s+([A-Z_][A-Z0-9_]*)=..." and
\* r"([A-Z_][A-Z0-9_]*)=..."): re.findall is not anchored, so the name captured
\* is the part of the name, up to the `=`, from the first position after which
\* every character is upper-case; none if the last character is lower-case
RECURSIVE UpperSuffix(_)
UpperSuffix(name) ==
    IF name = <<>> THEN <<>>
    ELSE IF \A k \in 1..Len(name) : name[k] \in UpperChars THEN name
    ELSE UpperSuffix(Tail(name))

\* _parse_env_assignments on one statement `export name=value`
ParseEnvAssignments(statement) ==
    [n \in Names |-> IF UpperSuffix(statement[1]) = n THEN statement[2] ELSE Absent]

\* _prepare_environment, lines 207-211, and parse_npx_command, lines 607-622:
\* with "&&" in the command the assignments are those of
\* command.split("&&")[0], the first statement alone
CommandAssignments(prefix) ==
    IF prefix = <<>> THEN EmptyEnv ELSE ParseEnvAssignments(prefix[1])

\* the statements left in front of `npx ...` in the text that is split into
\* the argument list of Popen: _parse_command takes command.split("&&")[-1],
\* parse_npx_command returns "&&".join(parts[1:])
ParseCommandPrefix(prefix) == <<>>
ParseNpxCommandPrefix(prefix) == IF prefix = <<>> THEN <<>> ELSE Tail(prefix)
ExecutedPrefix == IF kind = "env_stdio" THEN ParseNpxCommandPrefix(command_prefix)
                  ELSE ParseCommandPrefix(command_prefix)

\* NPXServerProcess._prepare_environment: os.environ.copy(), update with the
\* configured variables, update with the assignments of the command
PrepareEnvironment ==
    /\ kind = "env_launcher"
    /\ ~applied
    /\ child_env' = Update(Update(environ, env_vars), CommandAssignments(command_prefix))
    /\ applied' = TRUE
    /\ UNCHANGED <<command_prefix, env_vars, environ, line, server_url>>
    /\ UNCHANGED <<kind, running, request_id, received, stdioVars, callerVars, sseVars,
                   facadeVars, sessionVars, opVars, setupVars, moreVars>>

\* MCPStdioClient._start_process, lines 66-78: the configured variables updated
\* with those of parse_npx_command, then dict(os.environ) updated with the result
StartProcessEnvironment ==
    /\ kind = "env_stdio"
    /\ ~applied
    /\ child_env' = Update(environ, Update(env_vars, CommandAssignments(command_prefix)))
    /\ applied' = TRUE
    /\ UNCHANGED <<command_prefix, env_vars, environ, line, server_url>>
    /\ UNCHANGED <<kind, running, request_id, received, stdioVars, callerVars, sseVars,
                   facadeVars, sessionVars, opVars, setupVars, moreVars>>

Tokens ==
    {Word(w) : w \in {"server", "listening", "available", "url:", "port", "other"}}
        \cup {Url(h, p) : h \in {"localhost", "example.com"}, p \in {0, 3000}}
        \cup {HostPort("localhost", 3000), Num(8123)}

IsLocalHost(h) == h = "localhost"
IsAt(l, i, w) == i \in 1..Len(l) /\ l[i] = Word(w)
IsUrlAt(l, i) == i \in 1..Len(l) /\ l[i].type = "url"

\* url_patterns, lines 375-388, in their order: whether pattern k matches with
\* its group at token i of the line
PatternCount == 8
GroupAt(k, l, i) ==
    CASE k = 1 -> IsAt(l, i - 2, "server") /\ IsAt(l, i - 1, "listening") /\ IsUrlAt(l, i)
      [] k = 2 -> IsAt(l, i - 1, "available") /\ IsUrlAt(l, i)
      [] k = 3 -> IsAt(l, i - 1, "url:") /\ IsUrlAt(l, i)
      [] k = 4 -> IsAt(l, i - 1, "listening") /\ IsUrlAt(l, i)
      [] k = 5 -> IsUrlAt(l, i) /\ IsLocalHost(l[i].host) /\ l[i].port # 0
      [] k = 6 -> IsUrlAt(l, i) /\ l[i].port # 0
      [] k = 7 -> IsAt(l, i - 1, "port") /\ l[i].type = "num"
      [] k = 8 -> l[i].type \in {"url", "hostport"} /\ IsLocalHost(l[i].host) /\ l[i].port # 0

\* re.search: the leftmost match of pattern k, and then `match.group(1)`; a
\* group of digits only becomes http://localhost:<digits> (lines 394-398)
MatchPositions(k, l) == {i \in 1..Len(l) : GroupAt(k, l, i)}
First(S) == CHOOSE i \in S : \A j \in S : i <= j
Candidate(k, l) ==
    LET group == l[First(MatchPositions(k, l))]
    IN  IF k \in {7, 8} THEN Url("localhost", group.port) ELSE group

\* _is_valid_url: starts with http:// or https://, contains "localhost" or
\* "127.0.0.1", contains ":"
IsValidUrl(url) == url.type = "url" /\ IsLocalHost(url.host)

\* _extract_server_url: the first pattern, in order, that matches and whose
\* URL is valid gives the result
ExtractServerUrlOf(l) ==
    LET valid == {k \in 1..PatternCount :
                     MatchPositions(k, l) # {} /\ IsValidUrl(Candidate(k, l))}
    IN  IF valid = {} THEN NoMatch ELSE Candidate(First(valid), l)

ExtractServerUrl ==
    /\ kind = "url_scan"
    /\ ~applied
    /\ server_url' = ExtractServerUrlOf(line)
    /\ applied' = TRUE
    /\ UNCHANGED <<command_prefix, env_vars, environ, child_env, line>>
    /\ UNCHANGED <<kind, running, request_id, received, stdioVars, callerVars, sseVars,
                   facadeVars, sessionVars, opVars, setupVars, moreVars>>

LaunchNext ==
    \/ PrepareEnvironment
    \/ StartProcessEnvironment
    \/ ExtractServerUrl

\* ------------------------------------------------- address discovery
\* _try_fallback_detection: common_ports, with config.port inserted in front
CommonPorts == <<3000, 3001, 8000, 8080, 4000, 5000, 9000>>
FallbackPorts(p) == IF p # 0 THEN <<p>> \o CommonPorts ELSE CommonPorts

\* the lines a child may write
OutputLines ==
    { <<Word("other")>>,
      <<Word("listening"), Url("localhost", 3000)>>,
      <<Url("example.com", 3000)>>,
      <<Word("port"), Num(8123)>> }
Streams == {"stdout", "stderr"}
ConfigPorts == {0, 8080, 5173}
ProbeAnswers == {"refused", "no_http", "http"}

discoveryFrame == <<kind, running, request_id, received, stdioVars, callerVars, sseVars,
                    facadeVars, sessionVars, opVars, setupVars, managerVars, pureVars,
                    inputVars, targetVars, command_prefix, env_vars, environ, child_env, line,
                    applied>>

\* the child writes one more complete line to one of its pipes
ChildWrites ==
    /\ kind = "discovery"
    /\ discovery = "waiting"
    /\ Len(output) < MaxLines
    /\ \E st \in Streams, l \in OutputLines :
           output' = Append(output, [stream |-> st, line |-> l])
    /\ UNCHANGED <<scanned, probed, discovery, config_port, server_url>>
    /\ UNCHANGED discoveryFrame

\* the positions of the stream's lines that no iteration has read yet, in order
RECURSIVE Unread(_, _)
Unread(st, i) ==
    IF i > Len(output) THEN <<>>
    ELSE (IF output[i].stream = st /\ \A k \in 1..Len(scanned) : scanned[k] # i
          THEN <<i>> ELSE <<>>) \o Unread(st, i + 1)

ScanAll(batch) == batch

\* the lines of a batch are scanned in order up to the first one with a URL
RECURSIVE ScanUpToMatch(_)
ScanUpToMatch(batch) ==
    IF batch = <<>> THEN <<>>
    ELSE IF ExtractServerUrlOf(output[Head(batch)].line) # NoMatch THEN <<Head(batch)>>
    ELSE <<Head(batch)>> \o ScanUpToMatch(Tail(batch))

\* _wait_for_server_ready, one iteration of the loop with the process alive:
\* the data available on stdout is read and its complete lines are scanned,
\* then the same for stderr; the first line with a URL ends the wait. A read
\* that raises ends the iteration (stderr_ok: the read of stderr did not).
WaitReadOutput ==
    /\ kind = "discovery"
    /\ discovery = "waiting"
    /\ \E stderr_ok \in BOOLEAN :
          LET batch == Unread("stdout", 1) \o (IF stderr_ok THEN Unread("stderr", 1) ELSE <<>>)
              done == ScanUpToMatch(batch)
              url == IF done = <<>> THEN NoMatch
                     ELSE ExtractServerUrlOf(output[done[Len(done)]].line)
          IN  /\ batch # <<>>
              /\ scanned' = scanned \o done
              /\ server_url' = url
              /\ discovery' = IF url # NoMatch THEN "found" ELSE "waiting"
    /\ UNCHANGED <<output, probed, config_port>>
    /\ UNCHANGED discoveryFrame

\* _wait_for_server_ready: process.poll() is not None, NPXLauncherError
WaitProcessTerminated ==
    /\ kind = "discovery"
    /\ discovery = "waiting"
    /\ discovery' = "failed"
    /\ UNCHANGED <<output, scanned, probed, config_port, server_url>>
    /\ UNCHANGED discoveryFrame

\* _wait_for_server_ready: the loop ends after _startup_timeout
WaitTimeout ==
    /\ kind = "discovery"
    /\ discovery = "waiting"
    /\ discovery' = "probing"
    /\ UNCHANGED <<output, scanned, probed, config_port, server_url>>
    /\ UNCHANGED discoveryFrame

\* _try_fallback_detection, one port: connect_ex, then _test_http_endpoint
TryFallbackPort ==
    /\ kind = "discovery"
    /\ discovery = "probing"
    /\ Len(probed) < Len(FallbackPorts(config_port))
    /\ \E answer \in ProbeAnswers :
          LET p == FallbackPorts(config_port)[Len(probed) + 1]
          IN  /\ probed' = Append(probed, [port |-> p, answer |-> answer])
              /\ IF answer = "http"
                 THEN /\ discovery' = "found"
                      /\ server_url' = Url("localhost", p)
                 ELSE UNCHANGED <<discovery, server_url>>
    /\ UNCHANGED <<output, scanned, config_port>>
    /\ UNCHANGED discoveryFrame

\* _wait_for_server_ready: no port answered, NPXLauncherError
FallbackFails ==
    /\ kind = "discovery"
    /\ discovery = "probing"
    /\ Len(probed) = Len(FallbackPorts(config_port))
    /\ discovery' = "failed"
    /\ UNCHANGED <<output, scanned, probed, config_port, server_url>>
    /\ UNCHANGED discoveryFrame

DiscoveryNext ==
    \/ ChildWrites
    \/ WaitReadOutput
    \/ WaitProcessTerminated
    \/ WaitTimeout
    \/ TryFallbackPort
    \/ FallbackFails

\* ------------------------------------------- malformed lines and events

\* a stdout line that is no MCP message: bytes that are no text in the pipe's
\* encoding, text that is no JSON, JSON that is no object, an object whose
\* members have the wrong types
MalformedLines == {"undecodable", "not_json", "not_object", "bad_fields"}

\* _read_messages: process.stdout.readline() on a pipe opened with text=True
\* (_start_process, line 86) raises UnicodeDecodeError
ReadlineRaisesNever(form) == FALSE
ReadlineRaises(form) == form = "undecodable"

\* _read_messages, lines 104-128: one iteration of the reader loop on a
\* malformed line: json.loads or MCPMessage(**message_data) raises and the
\* loop continues (lines 116-123); readline raises and the loop breaks
\* (lines 125-127)
ReaderAfterMalformed(form) == IF ReadlineRaises(form) THEN "stopped" ELSE "alive"
ReadMalformedLine ==
    /\ kind = "stdio"
    /\ reader_thread = "alive"
    /\ running
    /\ process = "running"
    /\ malformed < MaxMalformed
    /\ malformed' = malformed + 1
    /\ \E form \in MalformedLines : reader_thread' = ReaderAfterMalformed(form)
    /\ UNCHANGED <<kind, running, request_id, received, process, response_queue,
                   answered, notified, skipped, callerVars>>
    /\ UNCHANGED sseVars
    /\ UNCHANGED facadeVars
    /\ UNCHANGED <<sessionVars, opVars, setupVars, launchVars, managerVars, pureVars, stdin,
                   discoveryVars, targetVars>>

\* the server sends a `message` event with such data
ServerSendsMalformed ==
    /\ kind = "sse"
    /\ connected
    /\ stream = <<>>
    /\ malformed < MaxMalformed
    /\ malformed' = malformed + 1
    /\ stream' = <<Event("message", Unparsable)>>
    /\ UNCHANGED <<kind, running, request_id, received, stdioVars, callerVars, sse_session,
                   sse_listener_task, connected, messages_url, pending_requests, future,
                   unsolicited, delivered>>
    /\ UNCHANGED facadeVars
    /\ UNCHANGED <<sessionVars, opVars, setupVars, launchVars, managerVars, pureVars, stdin,
                   discoveryVars, targetVars>>

MalformedNext ==
    \/ ReadMalformedLine
    \/ ServerSendsMalformed

\* --------------------------------------- pure functions of the client

pureFrame == <<kind, running, request_id, received, stdioVars, callerVars, sseVars,
               facadeVars, sessionVars, opVars, setupVars, managerVars, inputVars,
               discoveryVars, targetVars, command_prefix, env_vars, environ, child_env, line, server_url>>

\* one entry of the `tools` list of a `tools/list` result: a JSON object with
\* its `name` member (a string, possibly empty, null, or no such member) and
\* its `inputSchema` (an object: "ok", or another JSON value: "bad"), a bare
\* string, or another JSON value
NoMember == "<no member>"
Null == "<null>"
ToolEntry(type, name, schema) == [type |-> type, name |-> name, schema |-> schema]
ToolEntries ==
    {ToolEntry("dict", n, sc) : n \in {"echo", "add", "", NoMember, Null}, sc \in {"ok", "bad"}}
        \cup {ToolEntry("str", n, "ok") : n \in {"echo", ""}}
        \cup {ToolEntry("other", NoMember, "ok")}

\* get_tools, lines 487-495: tool_data.get("name", "unnamed_tool") for an
\* object, the string itself for a string
ToolName(e) ==
    IF e.type = "dict" /\ e.name = NoMember THEN "unnamed_tool" ELSE e.name

\* get_tools, lines 485-504: MCPTool(...) raises ValidationError for a name
\* that is not a string and for a schema that is not an object; another JSON
\* type is skipped with a warning
ToolAccepted(e) ==
    \/ e.type = "str"
    \/ e.type = "dict" /\ e.name # Null /\ e.schema = "ok"

\* get_tools, lines 476-507: the descriptors (their names), in the order of the entries
RECURSIVE GetToolsOf(_)
GetToolsOf(entries) ==
    IF entries = <<>> THEN <<>>
    ELSE (IF ToolAccepted(Head(entries)) THEN <<ToolName(Head(entries))>> ELSE <<>>)
            \o GetToolsOf(Tail(entries))

GetTools ==
    /\ kind = "get_tools"
    /\ ~applied
    /\ ret' = GetToolsOf(args)
    /\ applied' = TRUE
    /\ UNCHANGED args
    /\ UNCHANGED pureFrame

\* the `result` of an `initialize` response: each member is carried or not
InitializeResults ==
    [protocolVersion : {NoMember, "2024-11-05", "2025-03-26"},
     name : {NoMember, "echo-server"},
     version : {NoMember, "1.2.0"},
     capabilities : {NoMember, "{}", "{tools}"}]

ServerInfo(pv, n, v, c) ==
    [protocol_version |-> pv, server_name |-> n, server_version |-> v, capabilities |-> c]

\* dict.get(member, default)
Get(value, default) == IF value = NoMember THEN default ELSE value

\* MCPStdioClient._initialize_connection keeps nothing of the response;
\* MCPStdioClient.get_server_info returns these values
StdioGetServerInfo(init_result) == ServerInfo("2024-11-05", "MCP Server", "unknown", "{}")

\* MCPSSEClient._initialize_mcp_connection stores the members of the result;
\* MCPSSEClient.get_server_info reads them back
SseGetServerInfo(init_result) ==
    ServerInfo(Get(init_result.protocolVersion, Null), Get(init_result.name, "SSE MCP Server"),
               Get(init_result.version, "unknown"), Get(init_result.capabilities, "{}"))

\* MCPClient.get_server_info on the two session transports
GetServerInfoOf(tr, init_result) ==
    IF tr = "stdio" THEN StdioGetServerInfo(init_result) ELSE SseGetServerInfo(init_result)

GetServerInfo ==
    /\ kind = "server_info"
    /\ ~applied
    /\ ret' = GetServerInfoOf(args[1], args[2])
    /\ applied' = TRUE
    /\ UNCHANGED args
    /\ UNCHANGED pureFrame

\* the outcome of one probe request: a reply with its status and content
\* type, or an exception (the 3 s asyncio timeout of the GET, or an httpx
\* error such as a refused connection or the 5 s timeout of the HTTP client);
\* head() and get() raise no httpx.HTTPStatusError, which only
\* raise_for_status() raises
Reply(status, content_type) ==
    [outcome |-> "reply", status |-> status, content_type |-> content_type]
Raised(e) == [outcome |-> e, status |-> 0, content_type |-> ""]
Replies ==
    {Reply(st, ct) : st \in {200, 404, 406},
                     ct \in {"text/event-stream", "application/json", "text/html", ""}}
HeadOutcomes == Replies \cup {Raised("error")}
GetOutcomes == Replies \cup {Raised("timeout"), Raised("error")}

\* _probe_http_endpoint, lines 130-156: the GET and the two except clauses
ProbeGet(get) ==
    IF get.outcome = "timeout" THEN "sse"
    ELSE IF get.outcome = "error" THEN "http"
    ELSE IF get.content_type = "text/event-stream" THEN "sse"
    ELSE IF get.status = 406 THEN "sse"
    ELSE "http"

\* _probe_http_endpoint, lines 107-156
ProbeHttpEndpointOf(head, get) ==
    IF head.outcome = "error" THEN "http"
    ELSE IF head.status = 406 THEN "sse"
    ELSE IF head.content_type = "text/event-stream" THEN "sse"
    ELSE ProbeGet(get)

ProbeHttpEndpoint ==
    /\ kind = "probe"
    /\ ~applied
    /\ ret' = ProbeHttpEndpointOf(args[1], args[2])
    /\ applied' = TRUE
    /\ UNCHANGED args
    /\ UNCHANGED pureFrame

\* a variable name and a value are sequences of characters; an environment is
\* the sequence of its (name, value) items, in the order of the dict
UpperCase == <<"A", "B", "C", "D", "E", "F", "G", "H", "I", "J", "K", "L", "M", "N", "O", "P", "Q", "R", "S", "T", "U", "V", "W", "X", "Y", "Z">>
LowerCase == <<"a", "b", "c", "d", "e", "f", "g", "h", "i", "j", "k", "l", "m", "n", "o", "p", "q", "r", "s", "t", "u", "v", "w", "x", "y", "z">>
Lower(c) ==
    IF \E k \in 1..Len(UpperCase) : UpperCase[k] = c
    THEN LowerCase[CHOOSE k \in 1..Len(UpperCase) : UpperCase[k] = c]
    ELSE c
KeyLower(key) == [k \in 1..Len(key) |-> Lower(key[k])]

\* `pattern in key_lower`
Contains(pattern, text) ==
    \E k \in 1..(Len(text) - Len(pattern) + 1) :
        SubSeq(text, k, k + Len(pattern) - 1) = pattern

\* _get_safe_env_summary, lines 24-48
SensitivePatterns ==
    {<<"a", "p", "i", "_", "k", "e", "y">>,
     <<"a", "p", "i", "k", "e", "y">>,
     <<"k", "e", "y">>,
     <<"s", "e", "c", "r", "e", "t">>,
     <<"p", "a", "s", "s", "w", "o", "r", "d">>,
     <<"p", "a", "s", "s", "w", "d">>,
     <<"p", "w", "d">>,
     <<"t", "o", "k", "e", "n">>,
     <<"a", "u", "t", "h">>,
     <<"c", "r", "e", "d", "e", "n", "t", "i", "a", "l">>,
     <<"c", "r", "e", "d">>,
     <<"p", "r", "i", "v", "a", "t", "e">>,
     <<"a", "c", "c", "e", "s", "s">>,
     <<"s", "e", "s", "s", "i", "o", "n">>,
     <<"c", "o", "o", "k", "i", "e">>,
     <<"o", "a", "u", "t", "h">>,
     <<"j", "w", "t">>,
     <<"b", "e", "a", "r", "e", "r">>,
     <<"s", "i", "g", "n", "a", "t", "u", "r", "e">>,
     <<"d", "a", "t", "a", "b", "a", "s", "e", "_", "u", "r", "l">>,
     <<"d", "b", "_", "u", "r", "l">>,
     <<"c", "o", "n", "n", "e", "c", "t", "i", "o", "n", "_", "s", "t", "r", "i", "n", "g">>,
     <<"d", "s", "n">>}

\* _get_safe_env_summary, lines 53-55
IsSensitive(key) == \E pattern \in SensitivePatterns : Contains(pattern, KeyLower(key))
ShowsEveryKey(key) == TRUE
IsSafe(key) == ~IsSensitive(key)

\* _get_safe_env_summary, lines 50-74: the summary text is `{safe: [...] + n
\* more, sensitive: n hidden}`; `safe` holds the names printed, `more` and
\* `sensitive` the two numbers (0: the part is left out)
SafeLimit == 5
SafeShown == 3
GetSafeEnvSummaryOf(env) ==
    LET keys == [k \in 1..Len(env) |-> env[k][1]]
        safe_vars == SelectSeq(keys, IsSafe)
        sensitive_count == Len(keys) - Len(safe_vars)
    IN  [safe |-> IF Len(safe_vars) <= SafeLimit THEN safe_vars
                  ELSE SubSeq(safe_vars, 1, SafeShown),
         more |-> IF Len(safe_vars) <= SafeLimit THEN 0 ELSE Len(safe_vars) - SafeShown,
         sensitive |-> sensitive_count]

GetSafeEnvSummary ==
    /\ kind = "env_summary"
    /\ ~applied
    /\ ret' = GetSafeEnvSummaryOf(args)
    /\ applied' = TRUE
    /\ UNCHANGED args
    /\ UNCHANGED pureFrame

\* the environments a summary is made of: any subset of these variables, in
\* this order or the reverse, each with one of two values
SummaryKeys ==
    <<<<"P", "A", "T", "H">>,
      <<"H", "O", "M", "E">>,
      <<"A", "P", "I", "_", "K", "E", "Y">>,
      <<"L", "A", "N", "G">>,
      <<"T", "E", "R", "M">>,
      <<"U", "S", "E", "R">>,
      <<"T", "Z">>,
      <<"P", "W", "D">>>>
Reverse(q) == [k \in 1..Len(q) |-> q[Len(q) + 1 - k]]
SummaryValues == {<<"1">>, <<"s", "3", "c", "r", "3", "t">>}
EnvItems(order, values) ==
    LET Present(item) == item[2] # <<>>
    IN  SelectSeq([k \in 1..Len(order) |-> <<order[k], values[k]>>], Present)
SummaryEnvironments ==
    {EnvItems(order, values) :
        order \in {SummaryKeys, Reverse(SummaryKeys)},
        values \in [1..Len(SummaryKeys) -> SummaryValues \cup {<<>>}]}

\* the executable segment of a command, split into its tokens, and the
\* executables that can be found on the PATH
ExecutableSegments == {<<>>, <<"npx", "demo">>, <<"node", "demo">>, <<"npxx", "demo">>}
Executables == {"npx", "node"}
Started(spawned, raised) == [spawned |-> spawned, raised |-> raised]

\* subprocess.Popen(cmd_parts, ...): an empty argument list and an executable
\* that is not found raise, otherwise the child is spawned
Popen(cmd_parts, installed) ==
    IF cmd_parts = <<>> THEN Started(FALSE, "IndexError")
    ELSE IF cmd_parts[1] \notin installed THEN Started(FALSE, "FileNotFoundError")
    ELSE Started(TRUE, "none")

\* NPXServerProcess.start up to the spawn: _parse_command raises
\* NPXLauncherError unless the first token is `npx`; any other exception is
\* raised again as NPXLauncherError
LauncherStartOf(cmd_parts, installed) ==
    IF cmd_parts = <<>> \/ cmd_parts[1] # "npx" THEN Started(FALSE, "NPXLauncherError")
    ELSE IF Popen(cmd_parts, installed).raised # "none" THEN Started(FALSE, "NPXLauncherError")
    ELSE Popen(cmd_parts, installed)

\* MCPStdioClient._start_process up to the spawn: the command is split and
\* handed to Popen
StdioStartProcessOf(cmd_parts, installed) == Popen(cmd_parts, installed)

LauncherStart ==
    /\ kind = "start_launcher"
    /\ ~applied
    /\ ret' = LauncherStartOf(args[1], args[2])
    /\ applied' = TRUE
    /\ UNCHANGED args
    /\ UNCHANGED pureFrame

StdioStartProcess ==
    /\ kind = "start_stdio"
    /\ ~applied
    /\ ret' = StdioStartProcessOf(args[1], args[2])
    /\ applied' = TRUE
    /\ UNCHANGED args
    /\ UNCHANGED pureFrame

\* a line of the event stream is its text before the first colon (`field`),
\* whether it has a colon, and the text after it (`value`), a sequence of
\* characters; the blank line has neither, a comment starts with the colon
SseLine(field, colon, value) == [field |-> field, colon |-> colon, value |-> value]
BlankLine == SseLine("", FALSE, <<>>)
SseLines ==
    {BlankLine, SseLine("", TRUE, <<"c">>), SseLine("id", TRUE, <<"1">>)}
        \cup {SseLine("data", TRUE, v) : v \in {<<" ", "x">>, <<"y">>, <<" ", " ", "x">>}}
        \cup {SseLine("event", TRUE, v) : v \in {<<" ", "a">>, <<>>}}

\* str.lstrip(" ")
RECURSIVE Lstrip(_)
Lstrip(value) ==
    IF value # <<>> /\ Head(value) = " " THEN Lstrip(Tail(value)) ELSE value

\* "\n".join(data_lines)
RECURSIVE Join(_)
Join(data_lines) ==
    IF data_lines = <<>> THEN <<>>
    ELSE IF Len(data_lines) = 1 THEN data_lines[1]
    ELSE data_lines[1] \o <<"\n">> \o Join(Tail(data_lines))

MessageEvent == <<"message">>
KeepEvent(event_name) == event_name
\* the event name after a blank line
ResetEvent(event_name) == MessageEvent

\* _iter_sse_events: the loop over the lines, with the event name and the
\* data lines collected so far, and after the loop the record still open
RECURSIVE IterSseEventsFrom(_, _, _)
IterSseEventsFrom(lines, event_name, data_lines) ==
    IF lines = <<>>
    THEN IF data_lines # <<>> THEN << <<event_name, Join(data_lines)>> >> ELSE <<>>
    ELSE LET l == Head(lines)
             value == Lstrip(l.value)
         IN  IF l = BlankLine
             THEN (IF data_lines # <<>> THEN << <<event_name, Join(data_lines)>> >> ELSE <<>>)
                      \o IterSseEventsFrom(Tail(lines), ResetEvent(event_name), <<>>)
             ELSE IF l.field = "" THEN IterSseEventsFrom(Tail(lines), event_name, data_lines)
             ELSE IF l.field = "event"
             THEN IterSseEventsFrom(Tail(lines),
                                    IF value # <<>> THEN value ELSE MessageEvent, data_lines)
             ELSE IF l.field = "data"
             THEN IterSseEventsFrom(Tail(lines), event_name, Append(data_lines, value))
             ELSE IterSseEventsFrom(Tail(lines), event_name, data_lines)
IterSseEventsOf(lines) == IterSseEventsFrom(lines, MessageEvent, <<>>)

IterSseEvents ==
    /\ kind = "iter_sse"
    /\ ~applied
    /\ ret' = IterSseEventsOf(args)
    /\ applied' = TRUE
    /\ UNCHANGED args
    /\ UNCHANGED pureFrame

\* how a call made by fetch_tools_for_dataset ends
CallOutcomes == {"returns", "raises"}
Fetched(outcome, closed) == [outcome |-> outcome, closed |-> closed]

\* fetch_tools_for_dataset: get_server_info and get_tools are awaited inside
\* `with console.status(...)`, before the try statement; the reporting is
\* inside it, and its finally clause awaits client.close()
FetchToolsForDatasetOf(server_info, tools, report) ==
    IF server_info = "raises" THEN Fetched("raised", FALSE)
    ELSE IF tools = "raises" THEN Fetched("raised", FALSE)
    ELSE IF report = "raises" THEN Fetched("raised", TRUE)
    ELSE Fetched("returned", TRUE)

FetchToolsForDataset ==
    /\ kind = "fetch_tools"
    /\ ~applied
    /\ ret' = FetchToolsForDatasetOf(args[1], args[2], args[3])
    /\ applied' = TRUE
    /\ UNCHANGED args
    /\ UNCHANGED pureFrame

FunctionsNext ==
    \/ FetchToolsForDataset
    \/ IterSseEvents
    \/ GetTools
    \/ GetServerInfo
    \/ ProbeHttpEndpoint
    \/ GetSafeEnvSummary
    \/ LauncherStart
    \/ StdioStartProcess

ProtoInit ==
    /\ process = "none"
    /\ running = FALSE
    /\ reader_thread = "none"
    /\ request_id = 0
    /\ response_queue = <<>>
    /\ received = {}
    /\ answered = {}
    /\ notified = 0
    /\ pc = [w \in Callers |-> "idle"]
    /\ reqid = [w \in Callers |-> 0]
    /\ result = [w \in Callers |-> NoResponse]
    /\ skipped = [w \in Callers |-> FALSE]
    /\ sse_session = "none"
    /\ sse_listener_task = "none"
    /\ connected = FALSE
    /\ messages_url = FALSE
    /\ pending_requests = {}
    /\ future = [i \in Ids |-> NoFuture]
    /\ stream = <<>>
    /\ unsolicited = {}
    /\ delivered = [i \in Ids |-> 0]

\* MCPClient.__init__
FacadeInit ==
    /\ client_session = "none"
    /\ npx_manager = FALSE
    /\ active_servers = [u \in Urls |-> 0]
    /\ stdio_client = 0
    /\ sse_client = FALSE
    /\ children = [k \in Children |-> "unborn"]
    /\ instances = 0
    /\ close_outcome = "none"
    /\ close_calls = 0
    /\ teardown = {}
    /\ logged = {}

\* nothing sent, no signal sent, no response seen
SessionInit ==
    /\ phase = "new"
    /\ sent = <<>>
    /\ init_response = "none"
    /\ signals = <<>>
    /\ handshake = "none"
    /\ op_outcome = "none"
    /\ tool_requests = {}
    /\ listener = "none"
    /\ drops = 0
    /\ started_down = FALSE

\* no server launched through a manager, no pure function under study
TargetIdle ==
    /\ server_target = "none"
    /\ transport_arg = "none"

DiscoveryIdle ==
    /\ output = <<>>
    /\ scanned = <<>>
    /\ probed = <<>>
    /\ discovery = "idle"
    /\ config_port = 0

MoreIdle ==
    /\ child_url = [k \in Children |-> 0]
    /\ stops = {}
    /\ args = <<>>
    /\ ret = <<>>
    /\ malformed = 0
    /\ stdin = <<>>
    /\ DiscoveryIdle

\* the launcher functions are not under study
LaunchIdle ==
    /\ MoreIdle
    /\ command_prefix = <<>>
    /\ env_vars = EmptyEnv
    /\ environ = EmptyEnv
    /\ child_env = EmptyEnv
    /\ line = <<>>
    /\ server_url = NoMatch
    /\ applied = FALSE

\* one transport client, constructed
Init ==
    /\ kind \in {"stdio", "sse"}
    /\ TargetIdle
    /\ LaunchIdle
    /\ ProtoInit
    /\ FacadeInit
    /\ SessionInit
    /\ obeys_terminate = TRUE
    /\ transport = kind
    /\ is_npx_server = (kind = "stdio")

\* one MCPClient, constructed for a target and a transport argument
ClientInit ==
    /\ kind = "facade"
    /\ LaunchIdle
    /\ ProtoInit
    /\ FacadeInit
    /\ SessionInit
    /\ obeys_terminate = TRUE
    /\ server_target \in Targets
    /\ transport_arg \in TransportArgs
    /\ transport = DetectTransportType(transport_arg, server_target)
    /\ is_npx_server = (server_target = "npx")

Next == StdioNext \/ SseNext

Spec == Init /\ [][Next]_vars

\* the transport clients with a server that also writes malformed lines and events
SpecMalformed == Init /\ [][Next \/ MalformedNext]_vars

SpecClient == ClientInit /\ [][ClientNext]_vars

\* one MCPStdioClient or one NPXServerProcess from construction to close, with
\* a child that exits on the terminate signal or ignores it
InitSession ==
    /\ kind \in {"stdio_session", "npx_process", "sse_session"}
    /\ TargetIdle
    /\ LaunchIdle
    /\ ProtoInit
    /\ FacadeInit
    /\ SessionInit
    /\ obeys_terminate \in (IF kind = "sse_session" THEN {TRUE} ELSE BOOLEAN)
    /\ transport = "stdio"
    /\ is_npx_server = TRUE

SpecSession == InitSession /\ [][SessionNext]_vars

SeqsUpTo(S, n) == UNION {[1..k -> S] : k \in 0..n}
Statements == Names \X {"1"}

\* one call of a launcher function on its inputs: a command with up to
\* MaxStatements `export` statements before the npx command, configured
\* variables, an ambient environment; or an output line of up to MaxTokens tokens
InitLaunch ==
    /\ kind \in {"env_launcher", "env_stdio", "url_scan"}
    /\ TargetIdle
    /\ ProtoInit
    /\ FacadeInit
    /\ SessionInit
    /\ obeys_terminate = TRUE
    /\ transport = "http"
    /\ is_npx_server = TRUE
    /\ MoreIdle
    /\ child_env = EmptyEnv
    /\ server_url = NoMatch
    /\ applied = FALSE
    /\ IF kind = "url_scan"
       THEN /\ line \in SeqsUpTo(Tokens, MaxTokens)
            /\ command_prefix = <<>>
            /\ env_vars = EmptyEnv
            /\ environ = EmptyEnv
       ELSE /\ line = <<>>
            /\ command_prefix \in SeqsUpTo(Statements, MaxStatements)
            /\ env_vars \in [Names -> {Absent, "2"}]
            /\ environ \in {EmptyEnv, [n \in Names |-> "0"]}

SpecLaunch == InitLaunch /\ [][LaunchNext]_vars

\* one _wait_for_server_ready call on a child that has just been spawned
InitDiscovery ==
    /\ kind = "discovery"
    /\ TargetIdle
    /\ ProtoInit
    /\ FacadeInit
    /\ SessionInit
    /\ obeys_terminate = TRUE
    /\ transport = "http"
    /\ is_npx_server = TRUE
    /\ child_url = [k \in Children |-> 0]
    /\ stops = {}
    /\ args = <<>>
    /\ ret = <<>>
    /\ malformed = 0
    /\ stdin = <<>>
    /\ command_prefix = <<>>
    /\ env_vars = EmptyEnv
    /\ environ = EmptyEnv
    /\ child_env = EmptyEnv
    /\ line = <<>>
    /\ server_url = NoMatch
    /\ applied = FALSE
    /\ output = <<>>
    /\ scanned = <<>>
    /\ probed = <<>>
    /\ discovery = "waiting"
    /\ config_port \in ConfigPorts

SpecDiscovery == InitDiscovery /\ [][DiscoveryNext]_vars

\* one NPXServerManager, constructed
InitManager ==
    /\ kind = "manager"
    /\ TargetIdle
    /\ ProtoInit
    /\ FacadeInit
    /\ SessionInit
    /\ LaunchIdle
    /\ obeys_terminate = TRUE
    /\ transport = "http"
    /\ is_npx_server = TRUE

SpecManager == InitManager /\ [][ManagerNext]_vars

\* one call of a pure function of the client on its arguments
InitFunctions ==
    /\ kind \in {"get_tools", "server_info", "probe", "env_summary", "start_launcher",
                "start_stdio", "iter_sse", "fetch_tools"}
    /\ TargetIdle
    /\ ProtoInit
    /\ FacadeInit
    /\ SessionInit
    /\ obeys_terminate = TRUE
    /\ transport = "stdio"
    /\ is_npx_server = TRUE
    /\ command_prefix = <<>>
    /\ env_vars = EmptyEnv
    /\ environ = EmptyEnv
    /\ child_env = EmptyEnv
    /\ line = <<>>
    /\ server_url = NoMatch
    /\ applied = FALSE
    /\ child_url = [k \in Children |-> 0]
    /\ stops = {}
    /\ ret = <<>>
    /\ malformed = 0
    /\ stdin = <<>>
    /\ DiscoveryIdle
    /\ kind = "get_tools" => args \in SeqsUpTo(ToolEntries, MaxEntries)
    /\ kind = "probe" => args \in HeadOutcomes \X GetOutcomes
    /\ kind = "fetch_tools" => args \in CallOutcomes \X CallOutcomes \X CallOutcomes
    /\ kind = "iter_sse" => args \in SeqsUpTo(SseLines, MaxSseLines)
    /\ kind \in {"start_launcher", "start_stdio"}
           => args \in ExecutableSegments \X (SUBSET Executables)
    /\ kind = "env_summary" => args \in SummaryEnvironments
    /\ kind = "server_info" => args \in {<<tr, res>> : tr \in {"stdio", "sse"}, res \in InitializeResults}

SpecFunctions == InitFunctions /\ [][FunctionsNext]_vars

\* close() runs on: the bounded wait and the bounded join end; the listener's
\* one-second sleep ends
FairSpecSession ==
    /\ SpecSession
    /\ WF_vars(SessionWaitEnds)
    /\ WF_vars(SessionJoin)
    /\ WF_vars(SseBackoffEnds)

\* the stdio scheduling: the event loop runs every caller that is ready, and the
\* reader thread runs whenever it has a line to read
FairSpec ==
    /\ Spec
    /\ \A w \in Callers : WF_vars(StdioPoll(w))
    /\ WF_vars(ReadMessage)

\* ------------------------------------------------------------------ claims

InQueue(i) == \E k \in 1..Len(response_queue) : response_queue[k].id = i

\* C1: over stdio, the message _wait_for_response returns to a caller bears the
\* id of that caller's request, whatever the order of the queue.
C1_StdioResponseBearsRequestId ==
    \A w \in Callers : (kind = "stdio" /\ pc[w] = "done") => result[w].id = reqid[w]

\* a caller got its own response after having met another message first
C1_Witness ==
    \E w \in Callers :
        kind = "stdio" /\ pc[w] = "done" /\ skipped[w] /\ result[w].id = reqid[w]

\* C2: over SSE, the message _send_request returns for a request bears the id of
\* that request, on the POST-body path as on the `message` event path.
C2_SseResponseBearsRequestId ==
    \A w \in Callers : (kind = "sse" /\ pc[w] = "done") => result[w].id = reqid[w]

\* C3: a `message` event that carries the id of a request whose POST was sent
\* and that has had no response yet resolves that request when the listener
\* handles it, also while the sender is still processing the POST.
C3_EventAfterPostResolves ==
    [][\A w \in Callers :
        ( /\ kind = "sse"
          /\ pc[w] \in {"posting", "waiting"}
          /\ delivered[reqid[w]] = 0
          /\ stream # <<>>
          /\ Head(stream) = Event("message", reqid[w])
          /\ stream' = Tail(stream) )
        => future'[reqid[w]].state = "resolved"]_vars

\* C4: when every waiting stdio caller has its response in the queue and the
\* child stays alive, each of them eventually leaves its wait (with its
\* response; a timeout or the child's exit also end the obligation).
C4_EachWaiterFindsOwn ==
    \A w \in Callers :
        []( ( /\ kind = "stdio"
              /\ pc[w] = "poll"
              /\ process = "running"
              /\ \A v \in Callers : pc[v] = "poll" => InQueue(reqid[v]) )
            => <>(pc[w] # "poll" \/ process # "running") )

\* the frame of a timeout: a step in which one caller's wait times out frees
\* that caller's slot only: the other callers, their slots and futures, the
\* queued messages, the child process, the reader, the listener and the
\* session are unchanged
TimedOutStep(w) == pc[w] \in Waiting /\ pc'[w] = "timedout"
TimeoutFrame ==
    [][\A w \in Callers : TimedOutStep(w) =>
            /\ \A v \in Callers \ {w} :
                 pc'[v] = pc[v] /\ reqid'[v] = reqid[v] /\ result'[v] = result[v]
            /\ pending_requests' = pending_requests \ {reqid[w]}
            /\ \A i \in Ids \ {reqid[w]} : future'[i] = future[i]
            /\ response_queue' = response_queue
            /\ stream' = stream
            /\ process' = process
            /\ reader_thread' = reader_thread
            /\ running' = running
            /\ sse_listener_task' = sse_listener_task
            /\ sse_session' = sse_session
            /\ connected' = connected
      ]_vars

\* C5: once a stdio request has timed out, every other request that is still
\* awaited and whose response has been enqueued eventually ends its wait, as
\* long as the child stays alive: the timeout of one request does not keep
\* another from reaching its own response.
C5_OthersStillResolve ==
    \A v, w \in Callers :
        []( ( /\ kind = "stdio"
              /\ v # w
              /\ pc[v] = "timedout"
              /\ pc[w] = "poll"
              /\ process = "running"
              /\ InQueue(reqid[w]) )
            => <>(pc[w] # "poll" \/ process # "running") )

\* C6: for every request id, a response is handed over at most once, counting
\* the POST-body return and the resolution of the future.
C6_DeliveredAtMostOnce ==
    \A i \in Ids : delivered[i] <= 1

\* a request was answered once and another copy of its response was discarded
C6_Witness ==
    \E w \in Callers :
        /\ kind = "sse"
        /\ pc[w] = "done"
        /\ result[w].id = reqid[w]
        /\ delivered[reqid[w]] = 1
        /\ reqid[w] \in unsolicited

\* C7: as long as close() has not been called, the client instance has at most
\* one running child process, however often get_server_info, get_tools and
\* call_tool have ensured readiness.
C7_AtMostOneChild ==
    close_calls = 0 => Cardinality(RunningChildren) <= 1

\* C8: when close() has returned (here even: without any teardown failure
\* logged), no child process launched by the client is running, the SSE
\* listener is not active and no HTTP session is open.
C8_AllReleasedAfterClose ==
    (close_outcome = "returned" /\ logged = {}) =>
        /\ RunningChildren = {}
        /\ sse_listener_task # "active"
        /\ sse_session = "none"
        /\ client_session = "none"

\* C9: close() never ends by raising.
C9_CloseNeverRaises ==
    close_outcome # "raised"

\* C10: a close() called after a close() that returned performs no teardown
\* step, returns, changes no resource and leaves the session, the launcher
\* manager, the stdio client and the SSE client absent.
AllAbsent ==
    client_session = "none" /\ ~npx_manager /\ stdio_client = 0 /\ ~sse_client
C10_CloseIdempotent ==
    [][(close_outcome = "returned" /\ close_calls' > close_calls) =>
        /\ teardown' = {}
        /\ logged' = {}
        /\ close_outcome' = "returned"
        /\ AllAbsent'
        /\ UNCHANGED <<client_session, npx_manager, active_servers, stdio_client,
                       sse_client, children, running, sse_session, sse_listener_task,
                       pending_requests>>
      ]_vars

\* a second close() has returned without a teardown step, after the first one
\* released a transport that had been set up
C10_Witness ==
    /\ close_calls >= 2
    /\ close_outcome = "returned"
    /\ teardown = {}
    /\ (instances > 0 \/ sse_listener_task = "done")
    /\ AllAbsent

C12_ToolRequestsAfterHandshake ==
    \A r \in tool_requests : r[2] = "done"

\* C13: `notifications/initialized` has been sent exactly when the `initialize`
\* response has arrived without an `error` field; after a response with an
\* `error` field the setup has failed and the notification is not sent.
InitializedSent == \E k \in 1..Len(sent) : sent[k] = "notifications/initialized"
C13_InitializedIffCleanResponse ==
    /\ InitializedSent <=> init_response = "absent"
    /\ init_response \in {"empty", "present"} => (~InitializedSent /\ phase # "ready")

\* C14: while a stdio request waits and the child process has exited, the next
\* poll ends the wait with the process-terminated error: no step hands the
\* waiting caller a message or takes one from the queue, even when the
\* matching response is queued, and the caller does not stay in the wait.
C14_ExitedFailsAtNextPoll ==
    /\ [][\A w \in Callers :
            (pc[w] = "poll" /\ process = "exited")
                => /\ pc'[w] \in {"poll", "failed", "timedout"}
                   /\ result'[w] = result[w]
                   /\ response_queue' = response_queue]_vars
    /\ \A w \in Callers : (pc[w] = "poll" /\ process = "exited") ~> pc[w] # "poll"

\* a caller's wait has failed on the exited child while the response to its
\* request was in the queue
C14_Witness ==
    \E w \in Callers :
        /\ pc[w] = "failed"
        /\ process = "exited"
        /\ InQueue(reqid[w])
        /\ result[w] = NoResponse

\* the listener's GET has just failed, been rejected or ended
Dropped == listener # "backoff" /\ listener' = "backoff"
ReconnectsAfterDrop == (running /\ listener = "backoff") ~> listener = "get"
DropKeepsPending == [][Dropped => UNCHANGED <<pending_requests, future, phase>>]_vars
StartedDownCompletes ==
    [][(started_down /\ phase = "waiting" /\ request_id \in unsolicited)
          => future'[request_id].state # "cancelled"]_vars

\* C15: while the SSE session is active every failed, rejected or ended GET is
\* followed by a new GET; the drop changes no pending request; and a request
\* POSTed while no stream was open does not time out once the listener has
\* received the `message` event bearing its id on a later stream.
C15_DropsAreRecovered ==
    /\ ReconnectsAfterDrop
    /\ DropKeepsPending
    /\ StartedDownCompletes

\* C16: a request issued on the SSE transport before the `endpoint` event has
\* been received is not rejected: no request ends refused for lack of the
\* messages URL.
C16_EarlyRequestNotRejected ==
    kind = "sse_session" => phase # "rejected"

\* C17: SSE connection setup sends `initialize` only after an `endpoint` event
\* with a usable http(s) URL: the messages URL is set only by the `endpoint`
\* event whose payload is an http(s) URL (an empty, blank or other payload
\* leaves it unset), nothing is sent while it is unset, and a setup whose
\* endpoint wait timed out has sent nothing.
C17_InitializeAfterUsableEndpoint ==
    /\ [][(kind = "sse_session" /\ ~messages_url /\ messages_url')
            => (stream # <<>> /\ Head(stream).event = "endpoint"
                              /\ Head(stream).data = "http")]_vars
    /\ [](kind = "sse_session" /\ ~messages_url => sent = <<>>)
    /\ [][(phase = "endpoint_wait" /\ ~messages_url /\ phase' # phase)
            => (phase' = "setup_failed" /\ sent' = <<>>)]_vars

\* C18: every get_server_info, get_tools or call_tool that fails, in the
\* transport setup, in the handshake or in the request, reaches its caller as
\* MCPClientError: an operation either returns or raises MCPClientError.
C18_FailuresAreClientErrors ==
    op_outcome \in {"none", "returned", "MCPClientError"}

\* the assignments of the command prefix, later statements over earlier ones
RECURSIVE PrefixAssigns(_)
PrefixAssigns(prefix) ==
    IF prefix = <<>> THEN EmptyEnv
    ELSE Update([n \in Names |-> IF n = prefix[1][1] THEN prefix[1][2] ELSE Absent],
                PrefixAssigns(Tail(prefix)))

\* C19: the child environment is the ambient environment overridden by the
\* configured variables, overridden in turn by the assignments of the command
\* prefix; a configured variable that the prefix does not name keeps its
\* configured value.
C19_PrefixOverConfiguredOverAmbient ==
    (kind \in {"env_launcher", "env_stdio"} /\ applied)
        => child_env = Update(Update(environ, env_vars), PrefixAssigns(command_prefix))

LineUrls == {line[i] : i \in {j \in 1..Len(line) : line[j].type = "url" /\ line[j].port # 0}}
LinePorts == {line[i].port : i \in {j \in 2..Len(line) : line[j].type = "num"
                                                          /\ line[j - 1] = Word("port")}}

\* C20: scanning one output line, a line containing an explicit
\* http://host:port URL yields a URL of the line, a line that only mentions
\* `port NNNN` yields http://localhost:NNNN, and a line without a URL, a
\* host:port or a port mention yields no match.
C20_FirstMatchingPattern ==
    (kind = "url_scan" /\ applied)
        => /\ LineUrls # {}
                => server_url \in {line[i] : i \in {j \in 1..Len(line) : line[j].type = "url"}}
           /\ (LineUrls = {} /\ LinePorts # {}
                  /\ \A i \in 1..Len(line) : line[i].type \in {"word", "num"})
                => (server_url.type = "url" /\ server_url.host = "localhost"
                                           /\ server_url.port \in LinePorts)
           /\ (\A i \in 1..Len(line) : line[i].type = "word") => server_url = NoMatch

C22_ActiveServersAreTheUnstopped ==
    kind = "manager"
        => GetActiveServers = {child_url[k] : k \in {j \in Children : child_url[j] # 0
                                                                      /\ j \notin stops}}

\* a well-formed entry: a tool with a non-empty name (and, for an object, an
\* object as its schema)
WellFormedTool(e) ==
    /\ e.type \in {"dict", "str"}
    /\ e.name \notin {"", NoMember, Null}
    /\ e.schema = "ok"
RECURSIVE WellFormedNames(_)
WellFormedNames(entries) ==
    IF entries = <<>> THEN <<>>
    ELSE (IF WellFormedTool(Head(entries)) THEN <<Head(entries).name>> ELSE <<>>)
            \o WellFormedNames(Tail(entries))

\* C23: get_tools returns one descriptor per well-formed entry of the
\* `tools/list` result, in the server's order; malformed entries are skipped,
\* and every returned descriptor has a non-empty name.
C23_OneDescriptorPerWellFormedEntry ==
    (kind = "get_tools" /\ applied)
        => /\ ret = WellFormedNames(args)
           /\ \A k \in 1..Len(ret) : ret[k] # ""

\* C24: get_server_info returns the protocol version, server name, server
\* version and capabilities carried by the `initialize` response, on stdio as
\* on SSE; only a member the response does not carry is replaced by a default.
C24_ServerInfoIsTheInitializeResult ==
    (kind = "server_info" /\ applied)
        => /\ args[2].protocolVersion # NoMember => ret.protocol_version = args[2].protocolVersion
           /\ args[2].name # NoMember => ret.server_name = args[2].name
           /\ args[2].version # NoMember => ret.server_version = args[2].version
           /\ args[2].capabilities # NoMember => ret.capabilities = args[2].capabilities

\* a reply that announces an event stream
SseReply(r) ==
    r.outcome = "reply" /\ (r.status = 406 \/ r.content_type = "text/event-stream")

\* C25: the probe answers "sse" only when the HEAD reply or the GET reply has
\* status 406 or a text/event-stream content type; in every other case, an
\* error or a timeout of the probe included, it answers "http".
C25_SseOnlyOnEventStreamReply ==
    (kind = "probe" /\ applied)
        => /\ ret \in {"sse", "http"}
           /\ ret = "sse" => (SseReply(args[1]) \/ SseReply(args[2]))
           /\ SseReply(args[1]) => ret = "sse"

\* C26: each request of one client carries an id that no earlier request of
\* that client carried: every id in use was handed out by _next_id, a new
\* request takes the successor of the last id handed out (1, 2, 3, ... on
\* stdio), and two requests in progress at once never share an id.
C26_RequestIdsAreFresh ==
    /\ [](kind \in {"stdio", "sse"} => \A w \in Callers : reqid[w] \in 0..request_id)
    /\ [](kind \in {"stdio", "sse"}
            => \A w1, w2 \in Callers :
                 (w1 # w2 /\ pc[w1] # "idle" /\ pc[w2] # "idle") => reqid[w1] # reqid[w2])
    /\ [][(kind \in {"stdio", "sse"})
            => (\A w \in Callers :
                 ((pc[w] \in Finished /\ pc'[w] \notin Finished) \/ reqid'[w] # reqid[w])
                    => (reqid'[w] = request_id + 1 /\ request_id' = request_id + 1))]_vars

C26_Witness ==
    /\ kind = "stdio"
    /\ request_id = 3
    /\ pc[1] \in Waiting /\ pc[2] \in Waiting
    /\ reqid[1] = 2 /\ reqid[2] = 3

\* the variables of SummaryKeys whose names hold a sensitive word
SecretKeys == {<<"A", "P", "I", "_", "K", "E", "Y">>, <<"P", "W", "D">>}
ItemsOf(env) == {env[k] : k \in 1..Len(env)}
Printed(summary) == {summary.safe[k] : k \in 1..Len(summary.safe)}
Blank(env) == [k \in 1..Len(env) |-> <<env[k][1], <<>>>>]

\* C27: the environment summary holds no value of a variable and no name of
\* a variable with a sensitive name, it only counts the latter; it is the
\* same for two environments with the same names, whatever their values.
C27_SummaryHidesValuesAndSensitiveNames ==
    (kind = "env_summary" /\ applied)
        => /\ \A item \in ItemsOf(args) : item[2] \notin Printed(ret)
           /\ Printed(ret) \cap SecretKeys = {}
           /\ Printed(ret) \subseteq {item[1] : item \in ItemsOf(args)}
           /\ ret.sensitive = Cardinality({item \in ItemsOf(args) : item[1] \in SecretKeys})
           /\ ret = GetSafeEnvSummaryOf(Blank(args))

C27_Witness ==
    /\ kind = "env_summary" /\ applied
    /\ Len(args) = Len(SummaryKeys)
    /\ \A item \in ItemsOf(args) : item[2] = <<"s", "3", "c", "r", "3", "t">>
    /\ ret.sensitive = Cardinality(SecretKeys)
    /\ ret.more > 0

\* C28: in every state of the SSE client an entry of the pending map belongs
\* to exactly one request, which is waiting on a future that is not done; the
\* entry is gone as soon as its future is resolved by the matching response,
\* cancelled by the timeout of the wait, or cancelled by close().
C28_PendingOnlyWhileWaiting ==
    /\ [](kind = "sse"
            => \A i \in pending_requests :
                 /\ future[i].state = "waiting"
                 /\ Cardinality({w \in Callers : pc[w] = "waiting" /\ reqid[w] = i}) = 1)
    /\ [][(kind = "sse")
            => (\A i \in Ids :
                 (future[i].state = "waiting" /\ future'[i].state # "waiting")
                    => i \notin pending_requests')]_vars

\* one request timed out and another was resolved by its response, and
\* neither is in the map any more
C28_Witness ==
    \E v, w \in Callers :
        /\ kind = "sse"
        /\ pc[v] = "timedout" /\ reqid[v] \notin pending_requests
        /\ pc[w] = "waiting" /\ future[reqid[w]].state = "resolved"
        /\ reqid[w] \notin pending_requests

\* C29: once close() has completed, the pending map is empty and no caller
\* is blocked on a future, in every later state, also for a request whose
\* POST was in flight when close() ran.
C29_NothingPendingAfterClose ==
    (kind = "sse" /\ phase = "closed")
        => /\ pending_requests = {}
           /\ \A w \in Callers : ~(pc[w] = "waiting" /\ future[reqid[w]].state = "waiting")

\* C30: when the listener handles a `message` event whose id is not in the
\* pending map (no id, or the id of a request that is not or no longer
\* registered), the map, the messages URL, every future and every caller are
\* unchanged, and the listener goes on.
C30_UnmatchedEventIsDiscarded ==
    [][( /\ kind = "sse"
         /\ stream # <<>>
         /\ stream' = Tail(stream)
         /\ phase' = phase                     \* the listener's step, not close()
         /\ Head(stream).event = "message"
         /\ Head(stream).id \notin pending_requests )
        => /\ pending_requests' = pending_requests
           /\ messages_url' = messages_url
           /\ future' = future
           /\ pc' = pc /\ result' = result /\ reqid' = reqid
           /\ delivered' = delivered
           /\ sse_listener_task' = sse_listener_task
           /\ running' = running
           /\ connected' = connected
      ]_vars

\* an event without an id and an event for a request that had timed out were
\* discarded while another request is registered and waiting
C30_Witness ==
    \E v, w \in Callers :
        /\ kind = "sse"
        /\ NoId \in unsolicited
        /\ pc[v] = "timedout" /\ reqid[v] \in unsolicited
        /\ pc[w] = "waiting" /\ reqid[w] \in pending_requests
        /\ future[reqid[w]].state = "waiting"

\* a message that no request in progress awaits
Unawaited(message) == \A v \in Callers : pc[v] = "poll" => reqid[v] # message.id

\* C31: the stdio queue does not keep a message that matches no awaited
\* request (a notification, the late response to a request that timed out):
\* no step takes such a message from the head of the queue and puts it back.
C31_UnawaitedMessageNotKept ==
    [][~( /\ kind = "stdio"
          /\ Len(response_queue) > 1
          /\ Unawaited(Head(response_queue))
          /\ response_queue' # response_queue
          /\ response_queue' = Append(Tail(response_queue), Head(response_queue)) )]_vars

\* C32: a malformed stdout line and a malformed `message` event are dropped
\* without effect: the reader thread and the listener go on, the queue, the
\* pending map, the futures and the callers are unchanged.
C32_MalformedInputIsSkipped ==
    /\ [][(kind = "stdio" /\ malformed' # malformed)
            => /\ reader_thread' = reader_thread
               /\ response_queue' = response_queue
               /\ running' = running
               /\ pc' = pc /\ result' = result]_vars
    /\ [][( /\ kind = "sse"
             /\ stream # <<>>
             /\ Head(stream).id = Unparsable
             /\ stream' = Tail(stream)
             /\ phase' = phase )
            => /\ sse_listener_task' = sse_listener_task
               /\ running' = running /\ connected' = connected
               /\ pending_requests' = pending_requests
               /\ future' = future
               /\ pc' = pc /\ result' = result]_vars

\* C33: the child's stdin holds whole lines only: each message is its JSON
\* text followed by a newline, the lines of two messages never interleave,
\* and every message the server has received is there as one line.
C33_StdinHoldsWholeLines ==
    kind = "stdio"
        => /\ Len(stdin) % 2 = 0
           /\ \A k \in 1..Len(stdin) :
                 IF k % 2 = 1 THEN stdin[k].chars = "json" ELSE stdin[k] = Newline
           /\ \A i \in received :
                 Cardinality({k \in 1..Len(stdin) : stdin[k] = Json(i)}) = 1

\* two requests written while both callers were waiting
C33_Witness ==
    /\ kind = "stdio"
    /\ pc[1] = "poll" /\ pc[2] = "poll"
    /\ Len(stdin) >= 4
    /\ stdin[Len(stdin) - 3] = Json(reqid[2])
    /\ stdin[Len(stdin) - 1] = Json(reqid[1])

\* C34: address discovery returns the URL of the first scanned line that
\* matches, having probed no port, and then scans and probes nothing more;
\* ports are probed only after the timeout, with no scanned line matching,
\* the configured port first and then the fixed list in order, and the first
\* port that answers HTTP is returned; a failed discovery returns no address
ScannedUrl(k) == ExtractServerUrlOf(output[scanned[k]].line)
ExpectedPorts ==
    (IF config_port # 0 THEN <<config_port>> ELSE <<>>)
        \o <<3000, 3001, 8000, 8080, 4000, 5000, 9000>>
C34_DiscoveryState ==
    /\ (discovery = "found" /\ probed = <<>>) =>
           /\ scanned # <<>>
           /\ server_url # NoMatch
           /\ server_url = ScannedUrl(Len(scanned))
           /\ \A k \in 1..(Len(scanned) - 1) : ScannedUrl(k) = NoMatch
    /\ probed # <<>> =>
           /\ \A k \in 1..Len(scanned) : ScannedUrl(k) = NoMatch
           /\ Len(probed) <= Len(ExpectedPorts)
           /\ \A k \in 1..Len(probed) : probed[k].port = ExpectedPorts[k]
           /\ \A k \in 1..(Len(probed) - 1) : probed[k].answer # "http"
    /\ (discovery = "found" /\ probed # <<>>) =>
           /\ probed[Len(probed)].answer = "http"
           /\ server_url = Url("localhost", probed[Len(probed)].port)
    /\ discovery = "failed" => server_url = NoMatch
    /\ discovery \in {"waiting", "probing"} => server_url = NoMatch
C34_DiscoveryOrder ==
    /\ []C34_DiscoveryState
    /\ [][/\ (discovery \in {"found", "failed"}) =>
                 (scanned' = scanned /\ probed' = probed /\ server_url' = server_url)
          /\ (probed' # probed) => (discovery = "probing")
          /\ (discovery = "probing") => (scanned' = scanned)]_vars
C34_Witness ==
    /\ discovery = "found"
    /\ probed = <<>>
    /\ Len(scanned) = 2
    /\ Len(output) = 2

\* C35: for a command with several `&&` segments whose assignments have
\* upper-case names, every segment before the last contributes its
\* assignment to the child environment, and the text that is tokenized and
\* executed is the last segment alone
AllUpper(name) == \A k \in 1..Len(name) : name[k] \in UpperChars
C35_EverySegmentContributes ==
    (/\ kind \in {"env_launcher", "env_stdio"}
     /\ applied
     /\ \A i \in 1..Len(command_prefix) : AllUpper(command_prefix[i][1]))
        => /\ \A n \in Names : PrefixAssigns(command_prefix)[n] # Absent
                                   => child_env[n] = PrefixAssigns(command_prefix)[n]
           /\ ExecutedPrefix = <<>>

\* C36: when the executable segment of the command is empty or its first
\* token is not `npx`, starting fails with the launch error and no child
\* process is spawned
C36_NotNpxIsNotSpawned ==
    (/\ kind \in {"start_launcher", "start_stdio"}
     /\ applied
     /\ (args[1] = <<>> \/ args[1][1] # "npx"))
        => (ret.raised = "NPXLauncherError" /\ ~ret.spawned)

\* the blank lines of the stream, and the lines of the record that the k-th
\* of them terminates
BlankPositions == {i \in 1..Len(args) : args[i] = BlankLine}
NthBlank(k) == CHOOSE i \in BlankPositions : Cardinality({j \in BlankPositions : j < i}) = k - 1
RecordLines(k) ==
    {i \in 1..Len(args) : i < NthBlank(k) /\ \A j \in BlankPositions : j < NthBlank(k) => j < i}
DataPositions(k) == {i \in RecordLines(k) : args[i].field = "data"}
EventPositions(k) == {i \in RecordLines(k) : args[i].field = "event"}
Max(S) == CHOOSE i \in S : \A j \in S : j <= i
RECURSIVE JoinedData(_)
JoinedData(S) ==
    IF S = {} THEN <<>>
    ELSE LET i == Max(S)
             v == Lstrip(args[i].value)
         IN  IF S = {i} THEN v ELSE JoinedData(S \ {i}) \o <<"\n">> \o v
RecordEvent(k) ==
    IF EventPositions(k) = {} \/ Lstrip(args[Max(EventPositions(k))].value) = <<>>
    THEN <<"message">>
    ELSE Lstrip(args[Max(EventPositions(k))].value)
RecordsWithData == {k \in 1..Cardinality(BlankPositions) : DataPositions(k) # {}}
NthRecord(n) == CHOOSE k \in RecordsWithData : Cardinality({j \in RecordsWithData : j < k}) = n - 1

\* C37: the parser yields, in order, one record for each blank-line-terminated
\* record with a data line: its data values joined with a newline, under the
\* event name of that record or `message`; comments and other fields add
\* nothing, an event name does not carry over; when the stream ends with a
\* blank line nothing else is yielded
C37_OneRecordPerTerminatedRecord ==
    (kind = "iter_sse" /\ applied)
        => /\ Len(ret) >= Cardinality(RecordsWithData)
           /\ \A n \in 1..Cardinality(RecordsWithData) :
                  ret[n] = <<RecordEvent(NthRecord(n)), JoinedData(DataPositions(NthRecord(n)))>>
           /\ (args = <<>> \/ args[Len(args)] = BlankLine)
                  => Len(ret) = Cardinality(RecordsWithData)
C37_Witness ==
    /\ kind = "iter_sse"
    /\ applied
    /\ Len(ret) = 2
    /\ ret[1][1] # <<"message">>
    /\ ret[2][1] = <<"message">>
    /\ args[Len(args)] = BlankLine

\* C38: a client constructed with transport `auto` has transport http for a
\* target starting with http:// or https:// and stdio for any other target,
\* and a client constructed with an explicit transport has that one; later
\* the transport changes only from http to sse, in a step in which the probe
\* of a URL target found SSE, and the server target never changes
C38_TransportClassification ==
    /\ (kind = "facade") =>
           transport = (IF transport_arg # "auto" THEN transport_arg
                        ELSE IF server_target \in {"url", "https_url"} THEN "http"
                        ELSE "stdio")
    /\ [][(kind = "facade") =>
             /\ server_target' = server_target
             /\ (transport' # transport) =>
                    (/\ transport = "http"
                     /\ transport' = "sse"
                     /\ ~is_npx_server
                     /\ ~sse_client
                     /\ sse_client')]_vars
C38_Witness ==
    /\ kind = "facade"
    /\ transport_arg = "auto"
    /\ server_target = "https_url"
    /\ transport = "sse"
    /\ op_outcome = "returned"

\* C39: stop_all_servers stops every server process the manager launched and
\* had not yet stopped: after it, no launched process is running, and no
\* launched process that is running is ever without an entry
Launched == {k \in Children : child_url[k] # 0}
C39_StopAllStopsEveryLaunched ==
    /\ [](kind = "manager" =>
             \A k \in Launched : children[k] = "running" => k \in Tracked)
    /\ [][(kind = "manager" /\ active_servers' = [u \in Urls |-> 0]
                            /\ stops' # stops)
              => \A k \in Launched : children'[k] # "running"]_vars

\* C40: fetch_tools_for_dataset has closed the client it created when it
\* finishes, whether it returns the tools or a client call raised
C40_FetchClosesClient ==
    (kind = "fetch_tools" /\ applied) => ret.closed

====
